---- MODULE Spec2Model ----
(***************************************************************************)
(* CloudFront geo-restriction manager (cdn_geo_restriction_manager.py).    *)
(*                                                                         *)
(* Two programs are modelled over one CDN provider:                        *)
(*   SpecCheck : check_channel_whitelist_status, the whitelist-check flow  *)
(*   SpecEdit  : interactive_modify_restrictions, the interactive editor   *)
(*                                                                         *)
(* Text (cluster names, setup identifiers, country codes, display names,   *)
(* operator input) is a sequence of Unicode code points (a Python str), so *)
(* that str.replace, the substring test, strip, upper and lower are        *)
(* computed as Python computes them, for every character.                  *)
(* Regions and locations are only compared for equality and are strings;   *)
(* "" and << >> stand for an absent (None) or empty value, both falsy.     *)
(***************************************************************************)
EXTENDS Integers, Sequences, FiniteSets, TLC

VARIABLES
    \* ---- the CDN provider (CloudFront) ----
    remote,             \* [config, etag]: the distribution as the provider holds it
    calls,              \* provider calls of this process, oldest first: those of the
                        \* distribution lookup, then those of the latest apply
    externalUpdates,    \* number of changes made by other processes
    \* ---- whitelist-check flow ----
    cpc,                \* position in check_channel_whitelist_status
    cluster_regions,    \* self.cluster_regions: [aws_eks_clusters, gcp_gke_clusters]
    delivery_details,   \* response of the delivery-metadata API (NoDetails: failed)
    setup_values,       \* extract_setup_values(delivery_details)
    regions,            \* [aws, gcp]: get_regions_for_setups
    found_setups,       \* self.found_setups
    not_found_setups,   \* self.not_found_setups
    countries,          \* get_countries_for_regions
    found_locations,    \* self.found_locations
    missing_country_clusters, \* self.missing_country_clusters
    dist_restrictions,  \* geo_restrictions['distribution_level'] fetched by the flow
    report,             \* what the flow printed: [outcome, missing, blocked]
    \* ---- interactive editor ----
    epc,                \* position in the editor session
    distribution_info,  \* the record read at session start (account + config);
                        \* the editor and the apply change it in place
    geo_restrictions,   \* geo_restrictions['distribution_level']: the dict the
                        \* editor was handed, a part of that record
    aliases,            \* which objects are one and the same:
                        \*   fetched: current_items is geo_restrictions' Items list
                        \*   top:     geo_restrictions is the record's GeoRestrictions
                        \*   restr:   current_items is the Items list of the record's
                        \*            Restrictions.GeoRestriction
    current_type,       \* working copy: restriction type
    current_items,      \* working copy: country list
    pending,            \* the apply in progress: [config, etag]
    last                \* the last thing the editor did, with the operator's answers

provider_vars == <<remote, calls, externalUpdates>>
check_vars == <<cpc, cluster_regions, delivery_details, setup_values, regions,
                found_setups, not_found_setups, countries, found_locations,
                missing_country_clusters, dist_restrictions, report>>
edit_vars == <<epc, distribution_info, geo_restrictions, aliases, current_type,
               current_items, pending, last>>
vars == <<provider_vars, check_vars, edit_vars>>

----------------------------------------------------------------------------
(* Text helpers *)

Range(s) == { s[i] : i \in 1..Len(s) }

\* ---- str.upper() and str.lower() ----
\* Python converts every character by the full case mapping of the Unicode
\* character database (version 14.0 in Python 3.11): the result of one
\* character may be several characters (the sharp s U+00DF becomes "SS"), so both
\* conversions yield a text.  A rule <<lo, hi, step, delta>> says that
\* the characters lo, lo + step, ... up to hi map to themselves plus delta;
\* the special tables list the characters whose result is more than one
\* character.  A character in neither maps to itself.
UpperRules ==
    << <<181, 181, 1, 743>>, <<224, 246, 1, -32>>, <<248, 254, 1, -32>>,
       <<255, 255, 1, 121>>, <<257, 303, 2, -1>>, <<305, 305, 1, -232>>,
       <<307, 311, 2, -1>>, <<314, 328, 2, -1>>, <<331, 375, 2, -1>>,
       <<378, 382, 2, -1>>, <<383, 383, 1, -300>>, <<384, 384, 1, 195>>,
       <<387, 389, 2, -1>>, <<392, 392, 1, -1>>, <<396, 396, 1, -1>>,
       <<402, 402, 1, -1>>, <<405, 405, 1, 97>>, <<409, 409, 1, -1>>,
       <<410, 410, 1, 163>>, <<414, 414, 1, 130>>, <<417, 421, 2, -1>>,
       <<424, 424, 1, -1>>, <<429, 429, 1, -1>>, <<432, 432, 1, -1>>,
       <<436, 438, 2, -1>>, <<441, 441, 1, -1>>, <<445, 445, 1, -1>>,
       <<447, 447, 1, 56>>, <<453, 453, 1, -1>>, <<454, 454, 1, -2>>,
       <<456, 456, 1, -1>>, <<457, 457, 1, -2>>, <<459, 459, 1, -1>>,
       <<460, 460, 1, -2>>, <<462, 476, 2, -1>>, <<477, 477, 1, -79>>,
       <<479, 495, 2, -1>>, <<498, 498, 1, -1>>, <<499, 499, 1, -2>>,
       <<501, 501, 1, -1>>, <<505, 543, 2, -1>>, <<547, 563, 2, -1>>,
       <<572, 572, 1, -1>>, <<575, 576, 1, 10815>>, <<578, 578, 1, -1>>,
       <<583, 591, 2, -1>>, <<592, 592, 1, 10783>>, <<593, 593, 1, 10780>>,
       <<594, 594, 1, 10782>>, <<595, 595, 1, -210>>, <<596, 596, 1, -206>>,
       <<598, 599, 1, -205>>, <<601, 601, 1, -202>>, <<603, 603, 1, -203>>,
       <<604, 604, 1, 42319>>, <<608, 608, 1, -205>>, <<609, 609, 1, 42315>>,
       <<611, 611, 1, -207>>, <<613, 613, 1, 42280>>, <<614, 614, 1, 42308>>,
       <<616, 616, 1, -209>>, <<617, 617, 1, -211>>, <<618, 618, 1, 42308>>,
       <<619, 619, 1, 10743>>, <<620, 620, 1, 42305>>, <<623, 623, 1, -211>>,
       <<625, 625, 1, 10749>>, <<626, 626, 1, -213>>, <<629, 629, 1, -214>>,
       <<637, 637, 1, 10727>>, <<640, 640, 1, -218>>, <<642, 642, 1, 42307>>,
       <<643, 643, 1, -218>>, <<647, 647, 1, 42282>>, <<648, 648, 1, -218>>,
       <<649, 649, 1, -69>>, <<650, 651, 1, -217>>, <<652, 652, 1, -71>>,
       <<658, 658, 1, -219>>, <<669, 669, 1, 42261>>, <<670, 670, 1, 42258>>,
       <<837, 837, 1, 84>>, <<881, 883, 2, -1>>, <<887, 887, 1, -1>>,
       <<891, 893, 1, 130>>, <<940, 940, 1, -38>>, <<941, 943, 1, -37>>,
       <<945, 961, 1, -32>>, <<962, 962, 1, -31>>, <<963, 971, 1, -32>>,
       <<972, 972, 1, -64>>, <<973, 974, 1, -63>>, <<976, 976, 1, -62>>,
       <<977, 977, 1, -57>>, <<981, 981, 1, -47>>, <<982, 982, 1, -54>>,
       <<983, 983, 1, -8>>, <<985, 1007, 2, -1>>, <<1008, 1008, 1, -86>>,
       <<1009, 1009, 1, -80>>, <<1010, 1010, 1, 7>>, <<1011, 1011, 1, -116>>,
       <<1013, 1013, 1, -96>>, <<1016, 1016, 1, -1>>, <<1019, 1019, 1, -1>>,
       <<1072, 1103, 1, -32>>, <<1104, 1119, 1, -80>>, <<1121, 1153, 2, -1>>,
       <<1163, 1215, 2, -1>>, <<1218, 1230, 2, -1>>, <<1231, 1231, 1, -15>>,
       <<1233, 1327, 2, -1>>, <<1377, 1414, 1, -48>>,
       <<4304, 4346, 1, 3008>>, <<4349, 4351, 1, 3008>>,
       <<5112, 5117, 1, -8>>, <<7296, 7296, 1, -6254>>,
       <<7297, 7297, 1, -6253>>, <<7298, 7298, 1, -6244>>,
       <<7299, 7300, 1, -6242>>, <<7301, 7301, 1, -6243>>,
       <<7302, 7302, 1, -6236>>, <<7303, 7303, 1, -6181>>,
       <<7304, 7304, 1, 35266>>, <<7545, 7545, 1, 35332>>,
       <<7549, 7549, 1, 3814>>, <<7566, 7566, 1, 35384>>,
       <<7681, 7829, 2, -1>>, <<7835, 7835, 1, -59>>, <<7841, 7935, 2, -1>>,
       <<7936, 7943, 1, 8>>, <<7952, 7957, 1, 8>>, <<7968, 7975, 1, 8>>,
       <<7984, 7991, 1, 8>>, <<8000, 8005, 1, 8>>, <<8017, 8023, 2, 8>>,
       <<8032, 8039, 1, 8>>, <<8048, 8049, 1, 74>>, <<8050, 8053, 1, 86>>,
       <<8054, 8055, 1, 100>>, <<8056, 8057, 1, 128>>,
       <<8058, 8059, 1, 112>>, <<8060, 8061, 1, 126>>, <<8112, 8113, 1, 8>>,
       <<8126, 8126, 1, -7205>>, <<8144, 8145, 1, 8>>, <<8160, 8161, 1, 8>>,
       <<8165, 8165, 1, 7>>, <<8526, 8526, 1, -28>>, <<8560, 8575, 1, -16>>,
       <<8580, 8580, 1, -1>>, <<9424, 9449, 1, -26>>,
       <<11312, 11359, 1, -48>>, <<11361, 11361, 1, -1>>,
       <<11365, 11365, 1, -10795>>, <<11366, 11366, 1, -10792>>,
       <<11368, 11372, 2, -1>>, <<11379, 11379, 1, -1>>,
       <<11382, 11382, 1, -1>>, <<11393, 11491, 2, -1>>,
       <<11500, 11502, 2, -1>>, <<11507, 11507, 1, -1>>,
       <<11520, 11557, 1, -7264>>, <<11559, 11559, 1, -7264>>,
       <<11565, 11565, 1, -7264>>, <<42561, 42605, 2, -1>>,
       <<42625, 42651, 2, -1>>, <<42787, 42799, 2, -1>>,
       <<42803, 42863, 2, -1>>, <<42874, 42876, 2, -1>>,
       <<42879, 42887, 2, -1>>, <<42892, 42892, 1, -1>>,
       <<42897, 42899, 2, -1>>, <<42900, 42900, 1, 48>>,
       <<42903, 42921, 2, -1>>, <<42933, 42947, 2, -1>>,
       <<42952, 42954, 2, -1>>, <<42961, 42961, 1, -1>>,
       <<42967, 42969, 2, -1>>, <<42998, 42998, 1, -1>>,
       <<43859, 43859, 1, -928>>, <<43888, 43967, 1, -38864>>,
       <<65345, 65370, 1, -32>>, <<66600, 66639, 1, -40>>,
       <<66776, 66811, 1, -40>>, <<66967, 67003, 2, -39>>,
       <<66968, 66976, 2, -39>>, <<66980, 66992, 2, -39>>,
       <<66996, 67000, 2, -39>>, <<67004, 67004, 1, -39>>,
       <<68800, 68850, 1, -64>>, <<71872, 71903, 1, -32>>,
       <<93792, 93823, 1, -32>>, <<125218, 125251, 1, -34>> >>
UpperSpecial ==
    << <<223, <<83, 83>>>>, <<329, <<700, 78>>>>, <<496, <<74, 780>>>>,
       <<912, <<921, 776, 769>>>>, <<944, <<933, 776, 769>>>>,
       <<1415, <<1333, 1362>>>>, <<7830, <<72, 817>>>>,
       <<7831, <<84, 776>>>>, <<7832, <<87, 778>>>>, <<7833, <<89, 778>>>>,
       <<7834, <<65, 702>>>>, <<8016, <<933, 787>>>>,
       <<8018, <<933, 787, 768>>>>, <<8020, <<933, 787, 769>>>>,
       <<8022, <<933, 787, 834>>>>, <<8064, <<7944, 921>>>>,
       <<8065, <<7945, 921>>>>, <<8066, <<7946, 921>>>>,
       <<8067, <<7947, 921>>>>, <<8068, <<7948, 921>>>>,
       <<8069, <<7949, 921>>>>, <<8070, <<7950, 921>>>>,
       <<8071, <<7951, 921>>>>, <<8072, <<7944, 921>>>>,
       <<8073, <<7945, 921>>>>, <<8074, <<7946, 921>>>>,
       <<8075, <<7947, 921>>>>, <<8076, <<7948, 921>>>>,
       <<8077, <<7949, 921>>>>, <<8078, <<7950, 921>>>>,
       <<8079, <<7951, 921>>>>, <<8080, <<7976, 921>>>>,
       <<8081, <<7977, 921>>>>, <<8082, <<7978, 921>>>>,
       <<8083, <<7979, 921>>>>, <<8084, <<7980, 921>>>>,
       <<8085, <<7981, 921>>>>, <<8086, <<7982, 921>>>>,
       <<8087, <<7983, 921>>>>, <<8088, <<7976, 921>>>>,
       <<8089, <<7977, 921>>>>, <<8090, <<7978, 921>>>>,
       <<8091, <<7979, 921>>>>, <<8092, <<7980, 921>>>>,
       <<8093, <<7981, 921>>>>, <<8094, <<7982, 921>>>>,
       <<8095, <<7983, 921>>>>, <<8096, <<8040, 921>>>>,
       <<8097, <<8041, 921>>>>, <<8098, <<8042, 921>>>>,
       <<8099, <<8043, 921>>>>, <<8100, <<8044, 921>>>>,
       <<8101, <<8045, 921>>>>, <<8102, <<8046, 921>>>>,
       <<8103, <<8047, 921>>>>, <<8104, <<8040, 921>>>>,
       <<8105, <<8041, 921>>>>, <<8106, <<8042, 921>>>>,
       <<8107, <<8043, 921>>>>, <<8108, <<8044, 921>>>>,
       <<8109, <<8045, 921>>>>, <<8110, <<8046, 921>>>>,
       <<8111, <<8047, 921>>>>, <<8114, <<8122, 921>>>>,
       <<8115, <<913, 921>>>>, <<8116, <<902, 921>>>>,
       <<8118, <<913, 834>>>>, <<8119, <<913, 834, 921>>>>,
       <<8124, <<913, 921>>>>, <<8130, <<8138, 921>>>>,
       <<8131, <<919, 921>>>>, <<8132, <<905, 921>>>>,
       <<8134, <<919, 834>>>>, <<8135, <<919, 834, 921>>>>,
       <<8140, <<919, 921>>>>, <<8146, <<921, 776, 768>>>>,
       <<8147, <<921, 776, 769>>>>, <<8150, <<921, 834>>>>,
       <<8151, <<921, 776, 834>>>>, <<8162, <<933, 776, 768>>>>,
       <<8163, <<933, 776, 769>>>>, <<8164, <<929, 787>>>>,
       <<8166, <<933, 834>>>>, <<8167, <<933, 776, 834>>>>,
       <<8178, <<8186, 921>>>>, <<8179, <<937, 921>>>>,
       <<8180, <<911, 921>>>>, <<8182, <<937, 834>>>>,
       <<8183, <<937, 834, 921>>>>, <<8188, <<937, 921>>>>,
       <<64256, <<70, 70>>>>, <<64257, <<70, 73>>>>, <<64258, <<70, 76>>>>,
       <<64259, <<70, 70, 73>>>>, <<64260, <<70, 70, 76>>>>,
       <<64261, <<83, 84>>>>, <<64262, <<83, 84>>>>,
       <<64275, <<1348, 1350>>>>, <<64276, <<1348, 1333>>>>,
       <<64277, <<1348, 1339>>>>, <<64278, <<1358, 1350>>>>,
       <<64279, <<1348, 1341>>>> >>
LowerRules ==
    << <<192, 214, 1, 32>>, <<216, 222, 1, 32>>, <<256, 302, 2, 1>>,
       <<306, 310, 2, 1>>, <<313, 327, 2, 1>>, <<330, 374, 2, 1>>,
       <<376, 376, 1, -121>>, <<377, 381, 2, 1>>, <<385, 385, 1, 210>>,
       <<386, 388, 2, 1>>, <<390, 390, 1, 206>>, <<391, 391, 1, 1>>,
       <<393, 394, 1, 205>>, <<395, 395, 1, 1>>, <<398, 398, 1, 79>>,
       <<399, 399, 1, 202>>, <<400, 400, 1, 203>>, <<401, 401, 1, 1>>,
       <<403, 403, 1, 205>>, <<404, 404, 1, 207>>, <<406, 406, 1, 211>>,
       <<407, 407, 1, 209>>, <<408, 408, 1, 1>>, <<412, 412, 1, 211>>,
       <<413, 413, 1, 213>>, <<415, 415, 1, 214>>, <<416, 420, 2, 1>>,
       <<422, 422, 1, 218>>, <<423, 423, 1, 1>>, <<425, 425, 1, 218>>,
       <<428, 428, 1, 1>>, <<430, 430, 1, 218>>, <<431, 431, 1, 1>>,
       <<433, 434, 1, 217>>, <<435, 437, 2, 1>>, <<439, 439, 1, 219>>,
       <<440, 440, 1, 1>>, <<444, 444, 1, 1>>, <<452, 452, 1, 2>>,
       <<453, 453, 1, 1>>, <<455, 455, 1, 2>>, <<456, 456, 1, 1>>,
       <<458, 458, 1, 2>>, <<459, 475, 2, 1>>, <<478, 494, 2, 1>>,
       <<497, 497, 1, 2>>, <<498, 500, 2, 1>>, <<502, 502, 1, -97>>,
       <<503, 503, 1, -56>>, <<504, 542, 2, 1>>, <<544, 544, 1, -130>>,
       <<546, 562, 2, 1>>, <<570, 570, 1, 10795>>, <<571, 571, 1, 1>>,
       <<573, 573, 1, -163>>, <<574, 574, 1, 10792>>, <<577, 577, 1, 1>>,
       <<579, 579, 1, -195>>, <<580, 580, 1, 69>>, <<581, 581, 1, 71>>,
       <<582, 590, 2, 1>>, <<880, 882, 2, 1>>, <<886, 886, 1, 1>>,
       <<895, 895, 1, 116>>, <<902, 902, 1, 38>>, <<904, 906, 1, 37>>,
       <<908, 908, 1, 64>>, <<910, 911, 1, 63>>, <<913, 929, 1, 32>>,
       <<931, 939, 1, 32>>, <<975, 975, 1, 8>>, <<984, 1006, 2, 1>>,
       <<1012, 1012, 1, -60>>, <<1015, 1015, 1, 1>>, <<1017, 1017, 1, -7>>,
       <<1018, 1018, 1, 1>>, <<1021, 1023, 1, -130>>, <<1024, 1039, 1, 80>>,
       <<1040, 1071, 1, 32>>, <<1120, 1152, 2, 1>>, <<1162, 1214, 2, 1>>,
       <<1216, 1216, 1, 15>>, <<1217, 1229, 2, 1>>, <<1232, 1326, 2, 1>>,
       <<1329, 1366, 1, 48>>, <<4256, 4293, 1, 7264>>,
       <<4295, 4295, 1, 7264>>, <<4301, 4301, 1, 7264>>,
       <<5024, 5103, 1, 38864>>, <<5104, 5109, 1, 8>>,
       <<7312, 7354, 1, -3008>>, <<7357, 7359, 1, -3008>>,
       <<7680, 7828, 2, 1>>, <<7838, 7838, 1, -7615>>, <<7840, 7934, 2, 1>>,
       <<7944, 7951, 1, -8>>, <<7960, 7965, 1, -8>>, <<7976, 7983, 1, -8>>,
       <<7992, 7999, 1, -8>>, <<8008, 8013, 1, -8>>, <<8025, 8031, 2, -8>>,
       <<8040, 8047, 1, -8>>, <<8072, 8079, 1, -8>>, <<8088, 8095, 1, -8>>,
       <<8104, 8111, 1, -8>>, <<8120, 8121, 1, -8>>, <<8122, 8123, 1, -74>>,
       <<8124, 8124, 1, -9>>, <<8136, 8139, 1, -86>>, <<8140, 8140, 1, -9>>,
       <<8152, 8153, 1, -8>>, <<8154, 8155, 1, -100>>, <<8168, 8169, 1, -8>>,
       <<8170, 8171, 1, -112>>, <<8172, 8172, 1, -7>>,
       <<8184, 8185, 1, -128>>, <<8186, 8187, 1, -126>>,
       <<8188, 8188, 1, -9>>, <<8486, 8486, 1, -7517>>,
       <<8490, 8490, 1, -8383>>, <<8491, 8491, 1, -8262>>,
       <<8498, 8498, 1, 28>>, <<8544, 8559, 1, 16>>, <<8579, 8579, 1, 1>>,
       <<9398, 9423, 1, 26>>, <<11264, 11311, 1, 48>>,
       <<11360, 11360, 1, 1>>, <<11362, 11362, 1, -10743>>,
       <<11363, 11363, 1, -3814>>, <<11364, 11364, 1, -10727>>,
       <<11367, 11371, 2, 1>>, <<11373, 11373, 1, -10780>>,
       <<11374, 11374, 1, -10749>>, <<11375, 11375, 1, -10783>>,
       <<11376, 11376, 1, -10782>>, <<11378, 11378, 1, 1>>,
       <<11381, 11381, 1, 1>>, <<11390, 11391, 1, -10815>>,
       <<11392, 11490, 2, 1>>, <<11499, 11501, 2, 1>>,
       <<11506, 11506, 1, 1>>, <<42560, 42604, 2, 1>>,
       <<42624, 42650, 2, 1>>, <<42786, 42798, 2, 1>>,
       <<42802, 42862, 2, 1>>, <<42873, 42875, 2, 1>>,
       <<42877, 42877, 1, -35332>>, <<42878, 42886, 2, 1>>,
       <<42891, 42891, 1, 1>>, <<42893, 42893, 1, -42280>>,
       <<42896, 42898, 2, 1>>, <<42902, 42920, 2, 1>>,
       <<42922, 42922, 1, -42308>>, <<42923, 42923, 1, -42319>>,
       <<42924, 42924, 1, -42315>>, <<42925, 42925, 1, -42305>>,
       <<42926, 42926, 1, -42308>>, <<42928, 42928, 1, -42258>>,
       <<42929, 42929, 1, -42282>>, <<42930, 42930, 1, -42261>>,
       <<42931, 42931, 1, 928>>, <<42932, 42946, 2, 1>>,
       <<42948, 42948, 1, -48>>, <<42949, 42949, 1, -42307>>,
       <<42950, 42950, 1, -35384>>, <<42951, 42953, 2, 1>>,
       <<42960, 42960, 1, 1>>, <<42966, 42968, 2, 1>>,
       <<42997, 42997, 1, 1>>, <<65313, 65338, 1, 32>>,
       <<66560, 66599, 1, 40>>, <<66736, 66771, 1, 40>>,
       <<66928, 66964, 2, 39>>, <<66929, 66937, 2, 39>>,
       <<66941, 66953, 2, 39>>, <<66957, 66961, 2, 39>>,
       <<66965, 66965, 1, 39>>, <<68736, 68786, 1, 64>>,
       <<71840, 71871, 1, 32>>, <<93760, 93791, 1, 32>>,
       <<125184, 125217, 1, 34>> >>
LowerSpecial ==
    << <<304, <<105, 775>>>> >>
RuleHits(r, c) == r[1] <= c /\ c <= r[2] /\ (c - r[1]) % r[3] = 0
\* the characters a table converts, and the table as a function on them
CaseKeys(rules, special) ==
    { special[i][1] : i \in DOMAIN special }
    \cup UNION { { c \in rules[i][1]..rules[i][2] : RuleHits(rules[i], c) } :
                 i \in DOMAIN rules }
CaseMapped(rules, special, c) ==
    IF \E i \in DOMAIN special : special[i][1] = c
    THEN special[CHOOSE i \in DOMAIN special : special[i][1] = c][2]
    ELSE << c + rules[CHOOSE i \in DOMAIN rules : RuleHits(rules[i], c)][4] >>
UpperMap ==
    [c \in CaseKeys(UpperRules, UpperSpecial) |-> CaseMapped(UpperRules, UpperSpecial, c)]
LowerMap ==
    [c \in CaseKeys(LowerRules, LowerSpecial) |-> CaseMapped(LowerRules, LowerSpecial, c)]

\* one character; ASCII (below 128) is computed directly: a-z and A-Z
UpperChar(c) ==
    IF c < 128
    THEN IF 97 <= c /\ c <= 122 THEN << c - 32 >> ELSE << c >>
    ELSE IF c \in DOMAIN UpperMap THEN UpperMap[c] ELSE << c >>
LowerChar(c) ==
    IF c < 128
    THEN IF 65 <= c /\ c <= 90 THEN << c + 32 >> ELSE << c >>
    ELSE IF c \in DOMAIN LowerMap THEN LowerMap[c] ELSE << c >>

RECURSIVE Upper(_)
Upper(s) == IF s = << >> THEN << >> ELSE UpperChar(Head(s)) \o Upper(Tail(s))

\* str.lower() depends on the context of one character: the capital sigma
\* U+03A3 becomes the final sigma U+03C2 where it ends a word, i.e. where the
\* nearest character before it that is not case-ignorable is cased and the
\* nearest such character after it, if any, is not cased; elsewhere it becomes
\* the small sigma U+03C3.  CasedRanges holds the cased characters that are not
\* case-ignorable (the only ones that test ever meets), CaseIgnorableRanges
\* the case-ignorable ones, each as <<first, last>>.
CasedRanges ==
    << <<65, 90>>, <<97, 122>>, <<170, 170>>, <<181, 181>>, <<186, 186>>,
       <<192, 214>>, <<216, 246>>, <<248, 442>>, <<444, 447>>, <<452, 659>>,
       <<661, 687>>, <<880, 883>>, <<886, 887>>, <<891, 893>>, <<895, 895>>,
       <<902, 902>>, <<904, 906>>, <<908, 908>>, <<910, 929>>, <<931, 1013>>,
       <<1015, 1153>>, <<1162, 1327>>, <<1329, 1366>>, <<1376, 1416>>,
       <<4256, 4293>>, <<4295, 4295>>, <<4301, 4301>>, <<4304, 4346>>,
       <<4349, 4351>>, <<5024, 5109>>, <<5112, 5117>>, <<7296, 7304>>,
       <<7312, 7354>>, <<7357, 7359>>, <<7424, 7467>>, <<7531, 7543>>,
       <<7545, 7578>>, <<7680, 7957>>, <<7960, 7965>>, <<7968, 8005>>,
       <<8008, 8013>>, <<8016, 8023>>, <<8025, 8025>>, <<8027, 8027>>,
       <<8029, 8029>>, <<8031, 8061>>, <<8064, 8116>>, <<8118, 8124>>,
       <<8126, 8126>>, <<8130, 8132>>, <<8134, 8140>>, <<8144, 8147>>,
       <<8150, 8155>>, <<8160, 8172>>, <<8178, 8180>>, <<8182, 8188>>,
       <<8450, 8450>>, <<8455, 8455>>, <<8458, 8467>>, <<8469, 8469>>,
       <<8473, 8477>>, <<8484, 8484>>, <<8486, 8486>>, <<8488, 8488>>,
       <<8490, 8493>>, <<8495, 8500>>, <<8505, 8505>>, <<8508, 8511>>,
       <<8517, 8521>>, <<8526, 8526>>, <<8544, 8575>>, <<8579, 8580>>,
       <<9398, 9449>>, <<11264, 11387>>, <<11390, 11492>>, <<11499, 11502>>,
       <<11506, 11507>>, <<11520, 11557>>, <<11559, 11559>>,
       <<11565, 11565>>, <<42560, 42605>>, <<42624, 42651>>,
       <<42786, 42863>>, <<42865, 42887>>, <<42891, 42894>>,
       <<42896, 42954>>, <<42960, 42961>>, <<42963, 42963>>,
       <<42965, 42969>>, <<42997, 42998>>, <<43002, 43002>>,
       <<43824, 43866>>, <<43872, 43880>>, <<43888, 43967>>,
       <<64256, 64262>>, <<64275, 64279>>, <<65313, 65338>>,
       <<65345, 65370>>, <<66560, 66639>>, <<66736, 66771>>,
       <<66776, 66811>>, <<66928, 66938>>, <<66940, 66954>>,
       <<66956, 66962>>, <<66964, 66965>>, <<66967, 66977>>,
       <<66979, 66993>>, <<66995, 67001>>, <<67003, 67004>>,
       <<68736, 68786>>, <<68800, 68850>>, <<71840, 71903>>,
       <<93760, 93823>>, <<119808, 119892>>, <<119894, 119964>>,
       <<119966, 119967>>, <<119970, 119970>>, <<119973, 119974>>,
       <<119977, 119980>>, <<119982, 119993>>, <<119995, 119995>>,
       <<119997, 120003>>, <<120005, 120069>>, <<120071, 120074>>,
       <<120077, 120084>>, <<120086, 120092>>, <<120094, 120121>>,
       <<120123, 120126>>, <<120128, 120132>>, <<120134, 120134>>,
       <<120138, 120144>>, <<120146, 120485>>, <<120488, 120512>>,
       <<120514, 120538>>, <<120540, 120570>>, <<120572, 120596>>,
       <<120598, 120628>>, <<120630, 120654>>, <<120656, 120686>>,
       <<120688, 120712>>, <<120714, 120744>>, <<120746, 120770>>,
       <<120772, 120779>>, <<122624, 122633>>, <<122635, 122654>>,
       <<125184, 125251>>, <<127280, 127305>>, <<127312, 127337>>,
       <<127344, 127369>> >>
CaseIgnorableRanges ==
    << <<39, 39>>, <<46, 46>>, <<58, 58>>, <<94, 94>>, <<96, 96>>,
       <<168, 168>>, <<173, 173>>, <<175, 175>>, <<180, 180>>, <<183, 184>>,
       <<688, 879>>, <<884, 885>>, <<890, 890>>, <<900, 901>>, <<903, 903>>,
       <<1155, 1161>>, <<1369, 1369>>, <<1375, 1375>>, <<1425, 1469>>,
       <<1471, 1471>>, <<1473, 1474>>, <<1476, 1477>>, <<1479, 1479>>,
       <<1524, 1524>>, <<1536, 1541>>, <<1552, 1562>>, <<1564, 1564>>,
       <<1600, 1600>>, <<1611, 1631>>, <<1648, 1648>>, <<1750, 1757>>,
       <<1759, 1768>>, <<1770, 1773>>, <<1807, 1807>>, <<1809, 1809>>,
       <<1840, 1866>>, <<1958, 1968>>, <<2027, 2037>>, <<2042, 2042>>,
       <<2045, 2045>>, <<2070, 2093>>, <<2137, 2139>>, <<2184, 2184>>,
       <<2192, 2193>>, <<2200, 2207>>, <<2249, 2306>>, <<2362, 2362>>,
       <<2364, 2364>>, <<2369, 2376>>, <<2381, 2381>>, <<2385, 2391>>,
       <<2402, 2403>>, <<2417, 2417>>, <<2433, 2433>>, <<2492, 2492>>,
       <<2497, 2500>>, <<2509, 2509>>, <<2530, 2531>>, <<2558, 2558>>,
       <<2561, 2562>>, <<2620, 2620>>, <<2625, 2626>>, <<2631, 2632>>,
       <<2635, 2637>>, <<2641, 2641>>, <<2672, 2673>>, <<2677, 2677>>,
       <<2689, 2690>>, <<2748, 2748>>, <<2753, 2757>>, <<2759, 2760>>,
       <<2765, 2765>>, <<2786, 2787>>, <<2810, 2815>>, <<2817, 2817>>,
       <<2876, 2876>>, <<2879, 2879>>, <<2881, 2884>>, <<2893, 2893>>,
       <<2901, 2902>>, <<2914, 2915>>, <<2946, 2946>>, <<3008, 3008>>,
       <<3021, 3021>>, <<3072, 3072>>, <<3076, 3076>>, <<3132, 3132>>,
       <<3134, 3136>>, <<3142, 3144>>, <<3146, 3149>>, <<3157, 3158>>,
       <<3170, 3171>>, <<3201, 3201>>, <<3260, 3260>>, <<3263, 3263>>,
       <<3270, 3270>>, <<3276, 3277>>, <<3298, 3299>>, <<3328, 3329>>,
       <<3387, 3388>>, <<3393, 3396>>, <<3405, 3405>>, <<3426, 3427>>,
       <<3457, 3457>>, <<3530, 3530>>, <<3538, 3540>>, <<3542, 3542>>,
       <<3633, 3633>>, <<3636, 3642>>, <<3654, 3662>>, <<3761, 3761>>,
       <<3764, 3772>>, <<3782, 3782>>, <<3784, 3789>>, <<3864, 3865>>,
       <<3893, 3893>>, <<3895, 3895>>, <<3897, 3897>>, <<3953, 3966>>,
       <<3968, 3972>>, <<3974, 3975>>, <<3981, 3991>>, <<3993, 4028>>,
       <<4038, 4038>>, <<4141, 4144>>, <<4146, 4151>>, <<4153, 4154>>,
       <<4157, 4158>>, <<4184, 4185>>, <<4190, 4192>>, <<4209, 4212>>,
       <<4226, 4226>>, <<4229, 4230>>, <<4237, 4237>>, <<4253, 4253>>,
       <<4348, 4348>>, <<4957, 4959>>, <<5906, 5908>>, <<5938, 5939>>,
       <<5970, 5971>>, <<6002, 6003>>, <<6068, 6069>>, <<6071, 6077>>,
       <<6086, 6086>>, <<6089, 6099>>, <<6103, 6103>>, <<6109, 6109>>,
       <<6155, 6159>>, <<6211, 6211>>, <<6277, 6278>>, <<6313, 6313>>,
       <<6432, 6434>>, <<6439, 6440>>, <<6450, 6450>>, <<6457, 6459>>,
       <<6679, 6680>>, <<6683, 6683>>, <<6742, 6742>>, <<6744, 6750>>,
       <<6752, 6752>>, <<6754, 6754>>, <<6757, 6764>>, <<6771, 6780>>,
       <<6783, 6783>>, <<6823, 6823>>, <<6832, 6862>>, <<6912, 6915>>,
       <<6964, 6964>>, <<6966, 6970>>, <<6972, 6972>>, <<6978, 6978>>,
       <<7019, 7027>>, <<7040, 7041>>, <<7074, 7077>>, <<7080, 7081>>,
       <<7083, 7085>>, <<7142, 7142>>, <<7144, 7145>>, <<7149, 7149>>,
       <<7151, 7153>>, <<7212, 7219>>, <<7222, 7223>>, <<7288, 7293>>,
       <<7376, 7378>>, <<7380, 7392>>, <<7394, 7400>>, <<7405, 7405>>,
       <<7412, 7412>>, <<7416, 7417>>, <<7468, 7530>>, <<7544, 7544>>,
       <<7579, 7679>>, <<8125, 8125>>, <<8127, 8129>>, <<8141, 8143>>,
       <<8157, 8159>>, <<8173, 8175>>, <<8189, 8190>>, <<8203, 8207>>,
       <<8216, 8217>>, <<8228, 8228>>, <<8231, 8231>>, <<8234, 8238>>,
       <<8288, 8292>>, <<8294, 8303>>, <<8305, 8305>>, <<8319, 8319>>,
       <<8336, 8348>>, <<8400, 8432>>, <<11388, 11389>>, <<11503, 11505>>,
       <<11631, 11631>>, <<11647, 11647>>, <<11744, 11775>>,
       <<11823, 11823>>, <<12293, 12293>>, <<12330, 12333>>,
       <<12337, 12341>>, <<12347, 12347>>, <<12441, 12446>>,
       <<12540, 12542>>, <<40981, 40981>>, <<42232, 42237>>,
       <<42508, 42508>>, <<42607, 42610>>, <<42612, 42621>>,
       <<42623, 42623>>, <<42652, 42655>>, <<42736, 42737>>,
       <<42752, 42785>>, <<42864, 42864>>, <<42888, 42890>>,
       <<42994, 42996>>, <<43000, 43001>>, <<43010, 43010>>,
       <<43014, 43014>>, <<43019, 43019>>, <<43045, 43046>>,
       <<43052, 43052>>, <<43204, 43205>>, <<43232, 43249>>,
       <<43263, 43263>>, <<43302, 43309>>, <<43335, 43345>>,
       <<43392, 43394>>, <<43443, 43443>>, <<43446, 43449>>,
       <<43452, 43453>>, <<43471, 43471>>, <<43493, 43494>>,
       <<43561, 43566>>, <<43569, 43570>>, <<43573, 43574>>,
       <<43587, 43587>>, <<43596, 43596>>, <<43632, 43632>>,
       <<43644, 43644>>, <<43696, 43696>>, <<43698, 43700>>,
       <<43703, 43704>>, <<43710, 43711>>, <<43713, 43713>>,
       <<43741, 43741>>, <<43756, 43757>>, <<43763, 43764>>,
       <<43766, 43766>>, <<43867, 43871>>, <<43881, 43883>>,
       <<44005, 44005>>, <<44008, 44008>>, <<44013, 44013>>,
       <<64286, 64286>>, <<64434, 64450>>, <<65024, 65039>>,
       <<65043, 65043>>, <<65056, 65071>>, <<65106, 65106>>,
       <<65109, 65109>>, <<65279, 65279>>, <<65287, 65287>>,
       <<65294, 65294>>, <<65306, 65306>>, <<65342, 65342>>,
       <<65344, 65344>>, <<65392, 65392>>, <<65438, 65439>>,
       <<65507, 65507>>, <<65529, 65531>>, <<66045, 66045>>,
       <<66272, 66272>>, <<66422, 66426>>, <<67456, 67461>>,
       <<67463, 67504>>, <<67506, 67514>>, <<68097, 68099>>,
       <<68101, 68102>>, <<68108, 68111>>, <<68152, 68154>>,
       <<68159, 68159>>, <<68325, 68326>>, <<68900, 68903>>,
       <<69291, 69292>>, <<69446, 69456>>, <<69506, 69509>>,
       <<69633, 69633>>, <<69688, 69702>>, <<69744, 69744>>,
       <<69747, 69748>>, <<69759, 69761>>, <<69811, 69814>>,
       <<69817, 69818>>, <<69821, 69821>>, <<69826, 69826>>,
       <<69837, 69837>>, <<69888, 69890>>, <<69927, 69931>>,
       <<69933, 69940>>, <<70003, 70003>>, <<70016, 70017>>,
       <<70070, 70078>>, <<70089, 70092>>, <<70095, 70095>>,
       <<70191, 70193>>, <<70196, 70196>>, <<70198, 70199>>,
       <<70206, 70206>>, <<70367, 70367>>, <<70371, 70378>>,
       <<70400, 70401>>, <<70459, 70460>>, <<70464, 70464>>,
       <<70502, 70508>>, <<70512, 70516>>, <<70712, 70719>>,
       <<70722, 70724>>, <<70726, 70726>>, <<70750, 70750>>,
       <<70835, 70840>>, <<70842, 70842>>, <<70847, 70848>>,
       <<70850, 70851>>, <<71090, 71093>>, <<71100, 71101>>,
       <<71103, 71104>>, <<71132, 71133>>, <<71219, 71226>>,
       <<71229, 71229>>, <<71231, 71232>>, <<71339, 71339>>,
       <<71341, 71341>>, <<71344, 71349>>, <<71351, 71351>>,
       <<71453, 71455>>, <<71458, 71461>>, <<71463, 71467>>,
       <<71727, 71735>>, <<71737, 71738>>, <<71995, 71996>>,
       <<71998, 71998>>, <<72003, 72003>>, <<72148, 72151>>,
       <<72154, 72155>>, <<72160, 72160>>, <<72193, 72202>>,
       <<72243, 72248>>, <<72251, 72254>>, <<72263, 72263>>,
       <<72273, 72278>>, <<72281, 72283>>, <<72330, 72342>>,
       <<72344, 72345>>, <<72752, 72758>>, <<72760, 72765>>,
       <<72767, 72767>>, <<72850, 72871>>, <<72874, 72880>>,
       <<72882, 72883>>, <<72885, 72886>>, <<73009, 73014>>,
       <<73018, 73018>>, <<73020, 73021>>, <<73023, 73029>>,
       <<73031, 73031>>, <<73104, 73105>>, <<73109, 73109>>,
       <<73111, 73111>>, <<73459, 73460>>, <<78896, 78904>>,
       <<92912, 92916>>, <<92976, 92982>>, <<92992, 92995>>,
       <<94031, 94031>>, <<94095, 94111>>, <<94176, 94177>>,
       <<94179, 94180>>, <<110576, 110579>>, <<110581, 110587>>,
       <<110589, 110590>>, <<113821, 113822>>, <<113824, 113827>>,
       <<118528, 118573>>, <<118576, 118598>>, <<119143, 119145>>,
       <<119155, 119170>>, <<119173, 119179>>, <<119210, 119213>>,
       <<119362, 119364>>, <<121344, 121398>>, <<121403, 121452>>,
       <<121461, 121461>>, <<121476, 121476>>, <<121499, 121503>>,
       <<121505, 121519>>, <<122880, 122886>>, <<122888, 122904>>,
       <<122907, 122913>>, <<122915, 122916>>, <<122918, 122922>>,
       <<123184, 123197>>, <<123566, 123566>>, <<123628, 123631>>,
       <<125136, 125142>>, <<125252, 125259>>, <<127995, 127999>>,
       <<917505, 917505>>, <<917536, 917631>>, <<917760, 917999>> >>
InRanges(ranges) == UNION { ranges[i][1]..ranges[i][2] : i \in DOMAIN ranges }
CasedChars == InRanges(CasedRanges)
CaseIgnorableChars == InRanges(CaseIgnorableRanges)
Cased(c) == c \in CasedChars
CaseIgnorable(c) == c \in CaseIgnorableChars
CapitalSigma == 931
FinalSigma == 962
SmallSigma == 963
IsFinalSigma(s, i) ==
    LET before == { j \in 1..(i - 1) : ~CaseIgnorable(s[j]) }
        after == { j \in (i + 1)..Len(s) : ~CaseIgnorable(s[j]) }
    IN  /\ before # {}
        /\ Cased(s[CHOOSE j \in before : \A k \in before : k <= j])
        /\ \/ after = {}
           \/ ~Cased(s[CHOOSE j \in after : \A k \in after : j <= k])
RECURSIVE LowerFrom(_, _)
LowerFrom(s, i) ==
    IF i > Len(s) THEN << >>
    ELSE (IF s[i] = CapitalSigma
          THEN << IF IsFinalSigma(s, i) THEN FinalSigma ELSE SmallSigma >>
          ELSE LowerChar(s[i]))
         \o LowerFrom(s, i + 1)
Lower(s) == LowerFrom(s, 1)

\* ---- str.strip() ----
\* leading and trailing whitespace removed.  Python strips every character for
\* which str.isspace() holds: tab to carriage return (9-13), the separators
\* U+001C to U+001F and the blank (28-32), next line U+0085, no-break space
\* U+00A0, Ogham space mark U+1680, the spaces U+2000 to U+200A, line and
\* paragraph separator U+2028 and U+2029, U+202F, U+205F and U+3000.
Whitespace ==
    (9..13) \cup (28..32) \cup {133, 160, 5760} \cup (8192..8202)
    \cup {8232, 8233, 8239, 8287, 12288}
VerticalTab == 11
FileSep == 28
NextLine == 133
NoBreakSpace == 160
OghamSpace == 5760
EmSpace == 8195
LineSep == 8232
IdeographicSpace == 12288
RECURSIVE LStrip(_)
LStrip(s) == IF s # << >> /\ Head(s) \in Whitespace THEN LStrip(Tail(s)) ELSE s
RECURSIVE RStrip(_)
RStrip(s) ==
    IF s # << >> /\ s[Len(s)] \in Whitespace
    THEN RStrip(SubSeq(s, 1, Len(s) - 1))
    ELSE s
Strip(s) == RStrip(LStrip(s))

\* s.startswith(p)
StartsWith(s, p) == Len(p) <= Len(s) /\ SubSeq(s, 1, Len(p)) = p

\* Python `sub in s` on str
Contains(s, sub) ==
    \E i \in 0..(Len(s) - Len(sub)) : SubSeq(s, i + 1, i + Len(sub)) = sub

\* s.replace(old, new) for a non-empty old: every non-overlapping occurrence,
\* leftmost first
RECURSIVE Replace(_, _, _)
Replace(s, old, new) ==
    IF s = << >> THEN << >>
    ELSE IF StartsWith(s, old)
         THEN new \o Replace(SubSeq(s, Len(old) + 1, Len(s)), old, new)
         ELSE <<Head(s)>> \o Replace(Tail(s), old, new)

\* Python `x in list`
InList(x, list) == \E i \in DOMAIN list : list[i] = x

----------------------------------------------------------------------------
(* Data: country codes, cluster registry, delivery metadata *)

CodeUS == <<85,83>>    \* "US"
CodeGB == <<71,66>>    \* "GB"
CodeIN == <<73,78>>    \* "IN"
Codes == {CodeUS, CodeGB, CodeIN}

None == << >>          \* an absent or empty text value
GkeSuffix == <<45,103,107,101>>    \* "-gke"
MappedTo == <<32,40,109,97,112,112,101,100,32,116,111,32>>    \* " (mapped to "
CloseParen == <<41>>    \* ")"

\* setup identifiers and cluster names
TsUsE1N2 == <<116,115,45,117,115,45,101,49,45,110,50>>    \* "ts-us-e1-n2"
TsUsE1N2Gke == TsUsE1N2 \o GkeSuffix
EksA == <<101,107,115,45,97>>    \* "eks-a"
EksAB == <<101,107,115,45,97,98>>    \* "eks-ab"
GkeB == <<98>>    \* "b"
GkeBGke == GkeB \o GkeSuffix

Entry(n, r, l, c) == [name |-> n, region |-> r, location |-> l, country |-> c]

\* cluster_regions.json entries the registries are drawn from
AwsPool == { Entry(EksA, "us-east-1", "Virginia", CodeUS),
             Entry(EksAB, "eu-west-2", "London", CodeGB),
             Entry(TsUsE1N2, "ap-south-1", "Mumbai", None) }
GcpPool == { Entry(TsUsE1N2Gke, "us-east1", "SC", CodeUS),
             Entry(GkeBGke, "us-east-1", "", CodeGB),
             Entry(GkeB, "us-east-1", "Ashburn", CodeIN) }

MaxAws == 2
MaxGcp == 2

\* the sequences of at most n entries of pool, no entry twice (dict keys are unique)
RECURSIVE Partitions(_, _)
Partitions(pool, n) ==
    IF n = 0 THEN { << >> }
    ELSE LET shorter == Partitions(pool, n - 1)
         IN  shorter \cup
             { Append(x[1], x[2]) : x \in { y \in shorter \X pool : ~InList(y[2], y[1]) } }

Registries ==
    { [aws_eks_clusters |-> a, gcp_gke_clusters |-> g] :
        a \in Partitions(AwsPool, MaxAws), g \in Partitions(GcpPool, MaxGcp) }

\* JSON values: mappings (ordered key/value pairs), sequences, strings, numbers
\* (n: the number's value) and null
Str(s) == [t |-> "str", s |-> s, kids |-> << >>, n |-> 0]
Number(n) == [t |-> "num", s |-> << >>, kids |-> << >>, n |-> n]
Num == Number(5)
Zero == Number(0)
Dict(kv) == [t |-> "dict", s |-> << >>, kids |-> kv, n |-> 0]
List(items) ==
    [t |-> "list", s |-> << >>, kids |-> [i \in DOMAIN items |-> <<"", items[i]>>],
     n |-> 0]
NoDetails == [t |-> "none", s |-> << >>, kids |-> << >>, n |-> 0]
Unknown == <<122,122>>    \* "zz"

\* responses of the delivery-metadata API (response.json(): any JSON value)
Metadata ==
    { Dict(<< <<"deploy", Dict(<< <<"setup", Str(TsUsE1N2)>> >>)>> >>),
      Dict(<< <<"setup", Str(EksA)>>,
              <<"x", List(<< Dict(<< <<"setup", Str(GkeB)>> >>),
                             Dict(<< <<"setup", Str(EksA)>> >>) >>)>> >>),
      Dict(<< <<"deploy", List(<< Dict(<< <<"setup", Str(EksAB)>> >>),
                                  Dict(<< <<"setup", Str(EksA)>> >>),
                                  Dict(<< <<"setup", Str(GkeB)>> >>) >>)>> >>),
      Dict(<< <<"setup", Dict(<< <<"setup", Str(GkeB)>> >>)>>, <<"n", Num>>,
              <<"y", Dict(<< <<"setup", Str(Unknown)>> >>)>> >>),
      Dict(<< <<"a", Dict(<< <<"setup", Str(TsUsE1N2)>> >>)>>,
              <<"b", List(<< Str(EksA), Dict(<< <<"setup", Str(EksAB)>> >>) >>)>> >>),
      Dict(<< <<"setup", Num>>, <<"x", List(<< Str(EksA) >>)>> >>),
      List(<< Dict(<< <<"setup", Str(EksA)>> >>) >>),
      Dict(<< >>),
      Zero,
      NoDetails }

\* Python truthiness of the response
Truthy(data) ==
    \/ data.t = "num" /\ data.n # 0
    \/ data.t = "str" /\ data.s # << >>
    \/ data.t \in {"dict", "list"} /\ data.kids # << >>

----------------------------------------------------------------------------
(* Setup Resolver *)

RECURSIVE extract_setup_values(_, _)
RECURSIVE ExtractDictItems(_, _)
RECURSIVE ExtractListItems(_, _)

\* mutant: a setup already collected is not collected again
ExtractDictItems_Dedup(kids, acc) ==
    IF kids = << >> THEN acc
    ELSE LET key == Head(kids)[1]
             value == Head(kids)[2]
             acc1 == IF key = "setup" /\ value.t = "str"
                     THEN IF InList(value.s, acc) THEN acc ELSE Append(acc, value.s)
                     ELSE IF value.t \in {"dict", "list"}
                          THEN extract_setup_values(value, acc)
                          ELSE acc
         IN  ExtractDictItems(Tail(kids), acc1)

\* the loop of lines 332-336 over the (key, value) pairs of a dict
ExtractDictItems(kids, acc) ==
    IF kids = << >> THEN acc
    ELSE LET key == Head(kids)[1]
             value == Head(kids)[2]
             acc1 == IF key = "setup" /\ value.t = "str" THEN Append(acc, value.s)
                     ELSE IF value.t \in {"dict", "list"}
                          THEN extract_setup_values(value, acc)
                          ELSE acc
         IN  ExtractDictItems(Tail(kids), acc1)

\* the loop of lines 338-339 over the items of a list
ExtractListItems(kids, acc) ==
    IF kids = << >> THEN acc
    ELSE ExtractListItems(Tail(kids), extract_setup_values(Head(kids)[2], acc))

extract_setup_values(data, acc) ==
    IF data.t = "dict" THEN ExtractDictItems(data.kids, acc)
    ELSE IF data.t = "list" THEN ExtractListItems(data.kids, acc)
    ELSE acc

\* mutant: the suffix is not stripped
BaseName_NoStrip(cluster_name) == cluster_name

\* cluster_name.replace("-gke", "")
BaseName(cluster_name) == Replace(cluster_name, GkeSuffix, << >>)

\* f"{base_name} (mapped to {cluster_name})"
MappedLabel(base_name, cluster_name) ==
    base_name \o MappedTo \o cluster_name \o CloseParen

\* lines 350-355: the loop over the AWS partition; acc = [aws, gcp, found]
RECURSIVE AwsLoop(_, _, _)
AwsLoop(clusters, setups, acc) ==
    IF clusters = << >> THEN acc
    ELSE LET c == Head(clusters)
             acc1 == IF InList(c.name, setups) /\ c.region # ""
                     THEN [acc EXCEPT !.aws = Append(@, c.region),
                                      !.found = Append(@, c.name)]
                     ELSE acc
         IN  AwsLoop(Tail(clusters), setups, acc1)

\* lines 358-372: the loop over the GCP partition
RECURSIVE GcpLoop(_, _, _)
GcpLoop(clusters, setups, acc) ==
    IF clusters = << >> THEN acc
    ELSE LET c == Head(clusters)
             base_name == BaseName(c.name)
             acc1 == IF InList(c.name, setups)
                     THEN IF c.region # ""
                          THEN [acc EXCEPT !.gcp = Append(@, c.region),
                                           !.found = Append(@, c.name)]
                          ELSE acc
                     ELSE IF InList(base_name, setups) /\ c.region # ""
                          THEN [acc EXCEPT !.gcp = Append(@, c.region),
                                           !.found = Append(@, MappedLabel(base_name, c.name))]
                          ELSE acc
         IN  GcpLoop(Tail(clusters), setups, acc1)

\* line 376: a setup is reported unless it is an element of found_setups or a
\* substring of one of its elements
IsNotFound(setup, found) ==
    ~InList(setup, found) /\ ~(\E i \in DOMAIN found : Contains(found[i], setup))

\* get_regions_for_setups: [aws, gcp] are the returned regions, found and
\* not_found what it stores in self.found_setups and self.not_found_setups
get_regions_for_setups(registry, setups) ==
    LET acc == GcpLoop(registry.gcp_gke_clusters, setups,
                       AwsLoop(registry.aws_eks_clusters, setups,
                               [aws |-> << >>, gcp |-> << >>, found |-> << >>]))
    IN  [aws |-> acc.aws, gcp |-> acc.gcp, found |-> acc.found,
         not_found |-> SelectSeq(setups, LAMBDA x : IsNotFound(x, acc.found))]

NoLocation == "no location"

\* mutant: an entry without location or country is skipped without a diagnostic
RECURSIVE ClusterLoop_DropIncomplete(_, _, _)
ClusterLoop_DropIncomplete(clusters, region, acc) ==
    IF clusters = << >> THEN acc
    ELSE LET c == Head(clusters)
             acc1 ==
                 IF c.region # region THEN acc
                 ELSE IF c.location # "" /\ c.country # None
                 THEN [acc EXCEPT
                         !.found_locations = Append(@, <<region, c.location>>),
                         !.countries = IF InList(c.country, @) THEN @
                                       ELSE Append(@, c.country)]
                 ELSE acc
         IN  ClusterLoop_DropIncomplete(Tail(clusters), region, acc1)

\* lines 401-415: the clusters of one partition against one region;
\* acc = [countries, found_locations, missing]. The formatted diagnostics
\* f"{region} ({location})" and f"{cluster_name} ({location})" are kept as pairs.
RECURSIVE ClusterLoop(_, _, _)
ClusterLoop(clusters, region, acc) ==
    IF clusters = << >> THEN acc
    ELSE LET c == Head(clusters)
             acc1 ==
                 IF c.region # region THEN acc
                 ELSE IF c.location # "" /\ c.country # None
                 THEN [acc EXCEPT
                         !.found_locations = Append(@, <<region, c.location>>),
                         !.countries = IF InList(c.country, @) THEN @
                                       ELSE Append(@, c.country)]
                 ELSE IF c.location # ""
                 THEN [acc EXCEPT !.missing = Append(@, <<c.name, c.location>>)]
                 ELSE [acc EXCEPT !.missing = Append(@, <<c.name, NoLocation>>)]
         IN  ClusterLoop(Tail(clusters), region, acc1)

\* lines 393-415: the regions of one cloud type against that type's partition
RECURSIVE RegionLoop(_, _, _)
RegionLoop(region_list, clusters, acc) ==
    IF region_list = << >> THEN acc
    ELSE RegionLoop(Tail(region_list), clusters,
                    ClusterLoop(clusters, Head(region_list), acc))

\* mutant: every region is looked up in both partitions
get_countries_for_regions_BothPartitions(registry, regs) ==
    LET all == registry.aws_eks_clusters \o registry.gcp_gke_clusters
    IN  RegionLoop(regs.gcp, all,
                   RegionLoop(regs.aws, all,
                              [countries |-> << >>, found_locations |-> << >>,
                               missing |-> << >>]))

\* get_countries_for_regions: "aws" regions first, then "gcp" (dict order of
\* the regions built in get_regions_for_setups)
get_countries_for_regions(registry, regs) ==
    RegionLoop(regs.gcp, registry.gcp_gke_clusters,
               RegionLoop(regs.aws, registry.aws_eks_clusters,
                          [countries |-> << >>, found_locations |-> << >>,
                           missing |-> << >>]))

----------------------------------------------------------------------------
(* The CDN provider: one distribution, its configuration and its ETag *)

\* a GeoRestriction dict; hasItems tells whether it has the key 'Items' (the
\* provider leaves the key out of a restriction without countries);
\* RestrictionType "" is the empty dict {}
Geo(t, items) ==
    [RestrictionType |-> t, Quantity |-> Len(items), Items |-> items,
     hasItems |-> TRUE]
GeoNoItems(t) ==
    [RestrictionType |-> t, Quantity |-> 0, Items |-> << >>, hasItems |-> FALSE]
EmptyGeo == GeoNoItems("")

\* d.get('Items', [])
ItemsOf(d) == IF d.hasItems THEN d.Items ELSE << >>

\* a DistributionConfig: the top-level GeoRestrictions key, the Restrictions
\* dict (present or not, holding GeoRestriction or not), and `other`, which
\* stands for every other setting of the distribution (origins, behaviours...)
Config(top, present, hasGeo, geo, other) ==
    [GeoRestrictions |-> top,
     Restrictions |-> [present |-> present, hasGeo |-> hasGeo, GeoRestriction |-> geo],
     other |-> other]
Restricted(t, items) == Config(EmptyGeo, TRUE, TRUE, Geo(t, items), 0)
NoConfig == Config(EmptyGeo, FALSE, FALSE, EmptyGeo, 0)

MaxItems == 2
CodeOrder == <<CodeUS, CodeGB, CodeIN>>
ItemLists == Partitions(Codes, MaxItems)
IndexOf(c) == CHOOSE i \in DOMAIN CodeOrder : CodeOrder[i] = c
Ordered(l) == \A i, j \in DOMAIN l : i < j => IndexOf(l[i]) < IndexOf(l[j])

\* configurations the distribution can have when the program starts
RemoteConfigs ==
    { Restricted(t, l) : t \in {"whitelist", "blacklist"}, l \in ItemLists }
    \cup { Restricted("none", << >>),
           Config(EmptyGeo, TRUE, TRUE, GeoNoItems("none"), 0),
           NoConfig,
           Config(Geo("whitelist", <<CodeGB>>), FALSE, FALSE, EmptyGeo, 0),
           Config(Geo("blacklist", <<CodeGB>>), TRUE, FALSE, EmptyGeo, 0),
           Config(Geo("blacklist", <<CodeGB>>), TRUE, TRUE, Geo("whitelist", <<CodeUS>>), 0) }

\* self.clients, in configuration order
Accounts == <<"acct1", "acct2">>

\* what client.get_distribution answers: the distribution, a response without
\* the 'Distribution' key, or a ClientError with this code
GetAnswers == {"ok", "NoDistributionKey", "NoSuchDistribution", "AccessDenied",
               "InvalidArgument"}

Call(op, account, answer, etag) ==
    [op |-> op, account |-> account, answer |-> answer, etag |-> etag]

\* mutant: an access-denied answer ends the scan like a malformed identifier
RECURSIVE ScanAccounts_AbortOnDenied(_, _, _, _)
ScanAccounts_AbortOnDenied(i, answers, rem, made) ==
    IF i > Len(Accounts) THEN [account |-> 0, calls |-> made]
    ELSE LET a == answers[i]
             made1 == Append(made, Call("get", i, a, IF a = "ok" THEN rem.etag ELSE 0))
         IN  IF a = "ok" THEN [account |-> i, calls |-> made1]
             ELSE IF a \in {"InvalidArgument", "AccessDenied"}
                  THEN [account |-> 0, calls |-> made1]
                  ELSE ScanAccounts_AbortOnDenied(i + 1, answers, rem, made1)

\* get_distribution_info, lines 103-135: the accounts from index i on, against
\* the answers the provider gives; returns the account found (0: None) and the
\* calls made
RECURSIVE ScanAccounts(_, _, _, _)
ScanAccounts(i, answers, rem, made) ==
    IF i > Len(Accounts) THEN [account |-> 0, calls |-> made]
    ELSE LET a == answers[i]
             made1 == Append(made, Call("get", i, a, IF a = "ok" THEN rem.etag ELSE 0))
         IN  IF a = "ok" THEN [account |-> i, calls |-> made1]
             ELSE IF a = "InvalidArgument" THEN [account |-> 0, calls |-> made1]
             ELSE ScanAccounts(i + 1, answers, rem, made1)

get_distribution_info(answers, rem) == ScanAccounts(1, answers, rem, << >>)

\* get_geo_restrictions(...)['distribution_level'], lines 146-163
get_geo_restrictions(config) ==
    IF config.Restrictions.present /\ config.Restrictions.hasGeo
    THEN config.Restrictions.GeoRestriction
    ELSE config.GeoRestrictions

\* mutant: a record without a type is taken for an allow-list
RestrictionTypeOf_DefaultWhitelist(d) ==
    IF d.RestrictionType \in {"", "none"} THEN "whitelist" ELSE d.RestrictionType

\* dist_restrictions.get('RestrictionType', 'none')
RestrictionTypeOf(d) == IF d.RestrictionType = "" THEN "none" ELSE d.RestrictionType

----------------------------------------------------------------------------
(* Reconciliation Engine, lines 500-520 *)

\* mutant: the first required country is never looked at
MissingCountries_SkipFirst(required, allowed) ==
    SelectSeq(Tail(required), LAMBDA c : ~InList(c, allowed))

\* mutant: every country of the block-list is reported
BlockedCountries_AllListed(required, allowed) == allowed

\* line 506
MissingCountries(required, allowed) ==
    SelectSeq(required, LAMBDA c : ~InList(c, allowed))

\* line 513
BlockedCountries(required, allowed) ==
    SelectSeq(required, LAMBDA c : InList(c, allowed))

Report(outcome, missing, blocked) ==
    [outcome |-> outcome, missing |-> missing, blocked |-> blocked]

Reconcile(required, d) ==
    LET restriction_type == RestrictionTypeOf(d)
        allowed_countries == ItemsOf(d)
    IN  IF restriction_type = "whitelist"
        THEN LET missing == MissingCountries(required, allowed_countries)
             IN  IF missing # << >>
                 THEN Report("missing_from_whitelist", missing, << >>)
                 ELSE Report("all_whitelisted", << >>, << >>)
        ELSE IF restriction_type = "blacklist"
        THEN LET blocked == BlockedCountries(required, allowed_countries)
             IN  IF blocked # << >>
                 THEN Report("required_blacklisted", << >>, blocked)
                 ELSE Report("none_blacklisted", << >>, << >>)
        ELSE Report("no_restrictions", << >>, << >>)

----------------------------------------------------------------------------
(* Initial values *)

NoInfo == [account |-> 0, config |-> NoConfig]
NoAliases == [fetched |-> FALSE, top |-> FALSE, restr |-> FALSE]
NoPending == [config |-> NoConfig, etag |-> 0]
NoEvent == [event |-> "none", input |-> << >>, confirm |-> << >>, code |-> << >>,
            applies |-> 0]
NoReport == Report("", << >>, << >>)

InitProvider(configs) ==
    /\ remote \in [config : configs, etag : {1}]
    /\ calls = << >>
    /\ externalUpdates = 0

IdleCheck ==
    /\ cpc = "idle"
    /\ cluster_regions = [aws_eks_clusters |-> << >>, gcp_gke_clusters |-> << >>]
    /\ delivery_details = NoDetails
    /\ setup_values = << >>
    /\ regions = [aws |-> << >>, gcp |-> << >>]
    /\ found_setups = << >>
    /\ not_found_setups = << >>
    /\ countries = << >>
    /\ found_locations = << >>
    /\ missing_country_clusters = << >>
    /\ dist_restrictions = EmptyGeo
    /\ report = NoReport

IdleEdit ==
    /\ epc = "idle"
    /\ distribution_info = NoInfo
    /\ geo_restrictions = EmptyGeo
    /\ aliases = NoAliases
    /\ current_type = "none"
    /\ current_items = << >>
    /\ pending = NoPending
    /\ last = NoEvent

----------------------------------------------------------------------------
(* check_channel_whitelist_status, lines 423-523 *)

InitCheck ==
    /\ InitProvider({ c \in RemoteConfigs :
                        /\ Ordered(c.Restrictions.GeoRestriction.Items)
                        /\ Ordered(c.GeoRestrictions.Items) })
    /\ IdleEdit
    /\ cpc = "start"
    /\ cluster_regions \in Registries
    /\ delivery_details = NoDetails
    /\ setup_values = << >>
    /\ regions = [aws |-> << >>, gcp |-> << >>]
    /\ found_setups = << >>
    /\ not_found_setups = << >>
    /\ countries = << >>
    /\ found_locations = << >>
    /\ missing_country_clusters = << >>
    /\ dist_restrictions = EmptyGeo
    /\ report = NoReport

\* mutant: an unresolved setup or a missing-country diagnostic stops the flow
ResolveChannel_StopOnWarnings ==
    /\ cpc = "start"
    /\ \E details \in Metadata :
        LET sv == extract_setup_values(details, << >>)
            r == get_regions_for_setups(cluster_regions, sv)
            c == get_countries_for_regions(cluster_regions, [aws |-> r.aws, gcp |-> r.gcp])
            resolved == Truthy(details) /\ sv # << >>
            clean == c.countries # << >> /\ r.not_found = << >> /\ c.missing = << >>
        IN  /\ delivery_details' = details
            /\ setup_values' = IF Truthy(details) THEN sv ELSE << >>
            /\ regions' = IF resolved THEN [aws |-> r.aws, gcp |-> r.gcp] ELSE regions
            /\ found_setups' = IF resolved THEN r.found ELSE found_setups
            /\ not_found_setups' = IF resolved THEN r.not_found ELSE not_found_setups
            /\ countries' = IF resolved THEN c.countries ELSE countries
            /\ found_locations' = IF resolved THEN c.found_locations ELSE found_locations
            /\ missing_country_clusters' =
                    IF resolved THEN c.missing ELSE missing_country_clusters
            /\ report' = IF ~Truthy(details) THEN Report("no_details", << >>, << >>)
                         ELSE IF sv = << >> THEN Report("no_setups", << >>, << >>)
                         ELSE IF ~clean
                              THEN Report("no_countries", << >>, << >>)
                              ELSE report
            /\ cpc' = IF resolved /\ clean THEN "fetch" ELSE "done"
    /\ UNCHANGED <<provider_vars, edit_vars, cluster_regions, dist_restrictions>>

\* lines 428-484: fetch the delivery details, extract the setups, resolve them
\* to regions and countries; stops when a stage yields nothing
ResolveChannel ==
    /\ cpc = "start"
    /\ \E details \in Metadata :
        LET sv == extract_setup_values(details, << >>)
            r == get_regions_for_setups(cluster_regions, sv)
            c == get_countries_for_regions(cluster_regions, [aws |-> r.aws, gcp |-> r.gcp])
            resolved == Truthy(details) /\ sv # << >>
        IN  /\ delivery_details' = details
            /\ setup_values' = IF Truthy(details) THEN sv ELSE << >>
            /\ regions' = IF resolved THEN [aws |-> r.aws, gcp |-> r.gcp] ELSE regions
            /\ found_setups' = IF resolved THEN r.found ELSE found_setups
            /\ not_found_setups' = IF resolved THEN r.not_found ELSE not_found_setups
            /\ countries' = IF resolved THEN c.countries ELSE countries
            /\ found_locations' = IF resolved THEN c.found_locations ELSE found_locations
            /\ missing_country_clusters' =
                    IF resolved THEN c.missing ELSE missing_country_clusters
            /\ report' = IF ~Truthy(details) THEN Report("no_details", << >>, << >>)
                         ELSE IF sv = << >> THEN Report("no_setups", << >>, << >>)
                         ELSE IF c.countries = << >>
                              THEN Report("no_countries", << >>, << >>)
                              ELSE report
            /\ cpc' = IF resolved /\ c.countries # << >> THEN "fetch" ELSE "done"
    /\ UNCHANGED <<provider_vars, edit_vars, cluster_regions, dist_restrictions>>

\* lines 486-523: fetch the distribution and compare its restriction with the
\* required countries
ReconcileDistribution ==
    /\ cpc = "fetch"
    /\ \E answers \in [DOMAIN Accounts -> GetAnswers] :
        LET scan == get_distribution_info(answers, remote)
            d == get_geo_restrictions(remote.config)
        IN  /\ calls' = calls \o scan.calls
            /\ dist_restrictions' = IF scan.account = 0 THEN dist_restrictions ELSE d
            /\ report' = IF scan.account = 0
                         THEN Report("no_distribution", << >>, << >>)
                         ELSE Reconcile(countries, d)
    /\ cpc' = "done"
    /\ UNCHANGED <<remote, externalUpdates, edit_vars, cluster_regions,
                   delivery_details, setup_values, regions, found_setups,
                   not_found_setups, countries, found_locations,
                   missing_country_clusters>>

NextCheck == ResolveChannel \/ ReconcileDistribution

SpecCheck == InitCheck /\ [][NextCheck]_vars

Reconciled ==
    /\ cpc = "done"
    /\ report.outcome \in {"missing_from_whitelist", "all_whitelisted",
                           "required_blacklisted", "none_blacklisted",
                           "no_restrictions"}

----------------------------------------------------------------------------
(* Interactive editor: country table and operator input *)

NameUS == <<85,110,105,116,101,100,32,83,116,97,116,101,115>>    \* "United States"
NameGB == <<85,110,105,116,101,100,32,75,105,110,103,100,111,109>>    \* "United Kingdom"
NameIN == <<73,110,100,105,97>>    \* "India"

\* country_codes.get(code, code): the display name, or the code itself
CountryName(code) ==
    IF code = CodeUS THEN NameUS
    ELSE IF code = CodeGB THEN NameGB
    ELSE IF code = CodeIN THEN NameIN
    ELSE code

\* `country_input in country_codes`
IsKnownCode(text) == text \in Codes

\* reverse_codes: {name.lower(): code}
InReverseCodes(text) == \E c \in Codes : Lower(CountryName(c)) = text
ReverseCode(text) == CHOOSE c \in Codes : Lower(CountryName(c)) = text

Yes == <<121,101,115>>    \* "yes"
Y == <<121>>    \* "y"

\* the menu choices '1' to '5'
Choice1 == <<49>>
Choice2 == <<50>>
Choice3 == <<51>>
Choice4 == <<52>>
Choice5 == <<53>>

\* characters of the inputs below
LongS == 383            \* U+017F, upper() gives "S"
KelvinSign == 8490      \* U+212A, lower() gives "k"

\* what the operator may type at the menu prompt
MenuInputs == { Choice1, <<VerticalTab>> \o Choice2, <<OghamSpace>> \o Choice3,
                <<EmSpace>> \o Choice4, Choice5 \o <<IdeographicSpace>>,
                <<57>>, <<NoBreakSpace, FileSep>>, << >> }
\* ... at "Enter country to add"
\* " us" with a long s, "GB", "united kingdom" with the Kelvin sign, "united"
AddInputs == { <<OghamSpace,117,LongS>>, <<71,66>>,
               <<117,110,105,116,101,100,32,KelvinSign,105,110,103,100,111,109>>,
               <<117,110,105,116,101,100>>, << >> }
\* ... at "Enter country name/code to remove"
\* "us" with a long s, "in", "United", "zz"
RemoveInputs == { <<117,LongS,LineSep>>, <<105,110>>, <<85,110,105,116,101,100>>,
                  <<122,122>>, << >> }
\* ... at a (yes/no) prompt
ConfirmInputs == { Yes, <<NextLine,89,9>>, <<110>> }    \* "yes", " Y ", "n"

\* mutant: everything but an explicit "no" confirms
IsYes_NotNo(confirm) == Lower(Strip(confirm)) # <<110,111>>    \* "no"

\* input(...).strip().lower() in ['yes', 'y']
IsYes(confirm) == Lower(Strip(confirm)) \in {Yes, Y}

Event(event, input, confirm, code, applies) ==
    [event |-> event, input |-> input, confirm |-> confirm, code |-> code,
     applies |-> applies]

\* mutant: the test of line 629 is missing, a country already listed is added again
add_country_to_list_NoDuplicateCheck(items, raw, confirm) ==
    LET country_input == Upper(Strip(raw))
        country_code == IF IsKnownCode(country_input) THEN country_input
                        ELSE ReverseCode(Lower(country_input))
    IN  IF country_input = << >>
        THEN [items |-> items, event |-> "add_empty", code |-> None]
        ELSE IF ~IsKnownCode(country_input) /\ ~InReverseCodes(Lower(country_input))
        THEN [items |-> items, event |-> "add_unknown", code |-> None]
        ELSE IF IsYes(confirm)
        THEN [items |-> Append(items, country_code), event |-> "added",
              code |-> country_code]
        ELSE [items |-> items, event |-> "add_cancelled", code |-> country_code]

\* _add_country_to_list, lines 610-639: [items, event, code]
add_country_to_list(items, raw, confirm) ==
    LET country_input == Upper(Strip(raw))
        country_code == IF IsKnownCode(country_input) THEN country_input
                        ELSE ReverseCode(Lower(country_input))
    IN  IF country_input = << >>
        THEN [items |-> items, event |-> "add_empty", code |-> None]
        ELSE IF ~IsKnownCode(country_input) /\ ~InReverseCodes(Lower(country_input))
        THEN [items |-> items, event |-> "add_unknown", code |-> None]
        ELSE IF InList(country_code, items)
        THEN [items |-> items, event |-> "add_duplicate", code |-> country_code]
        ELSE IF IsYes(confirm)
        THEN [items |-> Append(items, country_code), event |-> "added",
              code |-> country_code]
        ELSE [items |-> items, event |-> "add_cancelled", code |-> country_code]

\* mutant: the name loop has no break, the last match wins
RECURSIVE FindByName_LastMatch(_, _)
FindByName_LastMatch(items, choice) ==
    IF items = << >> THEN None
    ELSE IF Contains(Lower(CountryName(items[Len(items)])), Lower(choice))
         THEN items[Len(items)]
         ELSE FindByName_LastMatch(SubSeq(items, 1, Len(items) - 1), choice)

\* lines 667-671: the first listed country whose display name contains the
\* input, case-insensitively; None when there is none
RECURSIVE FindByName(_, _)
FindByName(items, choice) ==
    IF items = << >> THEN None
    ELSE IF Contains(Lower(CountryName(Head(items))), Lower(choice))
         THEN Head(items)
         ELSE FindByName(Tail(items), choice)

\* list.remove(x): the first occurrence
RECURSIVE ListRemove(_, _)
ListRemove(items, x) ==
    IF items = << >> THEN << >>
    ELSE IF Head(items) = x THEN Tail(items)
         ELSE <<Head(items)>> \o ListRemove(Tail(items), x)

\* _remove_country_from_list, lines 643-683: [items, event, code]
remove_country_from_list(items, raw, confirm) ==
    LET choice == Strip(raw)
        country_to_remove == IF InList(Upper(choice), items) THEN Upper(choice)
                             ELSE FindByName(items, choice)
    IN  IF items = << >>
        THEN [items |-> items, event |-> "remove_empty_list", code |-> None]
        ELSE IF choice = << >>
        THEN [items |-> items, event |-> "remove_empty", code |-> None]
        ELSE IF country_to_remove = None
        THEN [items |-> items, event |-> "remove_not_found", code |-> None]
        ELSE IF IsYes(confirm)
        THEN [items |-> ListRemove(items, country_to_remove), event |-> "removed",
              code |-> country_to_remove]
        ELSE [items |-> items, event |-> "remove_cancelled",
              code |-> country_to_remove]

\* lines 725-744: the configuration submitted, built from the record read at
\* session start and the working copy
BuildConfig(config, restriction_type, items) ==
    IF restriction_type = "none"
    THEN [config EXCEPT !.Restrictions =
            [present |-> FALSE, hasGeo |-> FALSE, GeoRestriction |-> EmptyGeo]]
    ELSE [config EXCEPT !.Restrictions =
            [present |-> TRUE, hasGeo |-> TRUE,
             GeoRestriction |-> Geo(restriction_type, items)]]

\* lines 725-744 again: what they leave in the record. DistributionConfig.copy()
\* is a shallow copy, so the Restrictions dict of the copy is the record's own:
\* deleting GeoRestriction from it (line 732) or storing a new one in it
\* (lines 740-744) changes the record, while `del config['Restrictions']` and
\* `config['Restrictions'] = {}` change the copy only
RecordAfterBuild(config, restriction_type, items) ==
    IF ~config.Restrictions.present THEN config
    ELSE IF restriction_type = "none"
    THEN [config EXCEPT !.Restrictions =
            [present |-> TRUE, hasGeo |-> FALSE, GeoRestriction |-> EmptyGeo]]
    ELSE [config EXCEPT !.Restrictions =
            [present |-> TRUE, hasGeo |-> TRUE,
             GeoRestriction |-> Geo(restriction_type, items)]]

\* the new GeoRestriction of lines 740-744 holds the list `items` itself
AliasesAfterBuild(al, config, restriction_type) ==
    IF ~config.Restrictions.present THEN al
    ELSE [al EXCEPT !.restr = (restriction_type # "none")]

\* `'Items' in d`
HasItems(d) == d.hasItems

\* lines 532-534 with get_geo_restrictions, lines 146-163: current_items is the
\* Items list of the dict found in the record, or a new list when that dict has
\* no Items
AliasesAtRead(config) ==
    LET fromRestr == config.Restrictions.present /\ config.Restrictions.hasGeo
        d == get_geo_restrictions(config)
    IN  [fetched |-> HasItems(d),
         top |-> ~fromRestr /\ HasItems(d),
         restr |-> fromRestr /\ HasItems(d)]

\* current_items.append / current_items.remove, lines 636 and 678: the list is
\* changed in place, and with it every dict that holds it (Quantity is not
\* touched)
RecordAfterEdit(info, al, items) ==
    [info EXCEPT
        !.config.GeoRestrictions.Items = IF al.top /\ al.fetched THEN items ELSE @,
        !.config.Restrictions.GeoRestriction.Items = IF al.restr THEN items ELSE @]
FetchedAfterEdit(d, al, items) ==
    IF al.fetched THEN [d EXCEPT !.Items = items] ELSE d

----------------------------------------------------------------------------
(* Interactive editor session: main, check_distribution,                   *)
(* interactive_modify_restrictions, _apply_changes_to_cloudfront           *)

MaxApply == 2       \* confirmed applies in one session

\* the distribution when the session starts
EditConfigs ==
    { Restricted("whitelist", <<CodeUS, CodeGB>>),
      Config(Geo("blacklist", <<CodeGB>>), FALSE, FALSE, EmptyGeo, 0),
      Restricted("none", << >>),
      Config(EmptyGeo, TRUE, TRUE, GeoNoItems("none"), 0) }

\* what another process writes: a different restriction, other settings changed
ExternalConfig == Config(EmptyGeo, TRUE, TRUE, Geo("blacklist", <<CodeIN>>), 1)

\* what client.update_distribution answers
UpdateAnswers == {"ok", "PreconditionFailed", "AccessDenied"}

\* what the accounts answer to the read at session start: the distribution is
\* in the second account, or in none
EditScanAnswers == { <<"NoSuchDistribution", "ok">>,
                     <<"AccessDenied", "NoSuchDistribution">> }

InitEdit ==
    /\ InitProvider(EditConfigs)
    /\ IdleCheck
    /\ epc = "start"
    /\ distribution_info = NoInfo
    /\ geo_restrictions = EmptyGeo
    /\ aliases = NoAliases
    /\ current_type = "none"
    /\ current_items = << >>
    /\ pending = NoPending
    /\ last = NoEvent

\* the menu choice typed by the operator, line 555
Chose(n) == \E raw \in MenuInputs : Strip(raw) = n

\* main, lines 893-903, check_distribution, lines 237-242, and lines 532-534:
\* the record is read and the working copy is built from it
ReadDistribution ==
    /\ epc = "start"
    /\ \E answers \in EditScanAnswers :
        LET scan == get_distribution_info(answers, remote)
            d == get_geo_restrictions(remote.config)
        IN  /\ calls' = calls \o scan.calls
            /\ IF scan.account = 0
               THEN /\ epc' = "done"
                    /\ last' = Event("not_found", << >>, << >>, None, 0)
                    /\ UNCHANGED <<distribution_info, geo_restrictions, aliases,
                                   current_type, current_items>>
               ELSE /\ epc' = "menu"
                    /\ last' = Event("read", << >>, << >>, None, 0)
                    /\ distribution_info' = [account |-> scan.account,
                                             config |-> remote.config]
                    /\ geo_restrictions' = d
                    /\ aliases' = AliasesAtRead(remote.config)
                    /\ current_type' = RestrictionTypeOf(d)
                    /\ current_items' = ItemsOf(d)
    /\ UNCHANGED <<remote, externalUpdates, pending, check_vars>>

\* whether _add_country_to_list reaches its (yes/no) prompt, line 633
AddAsks(items, raw) ==
    add_country_to_list(items, raw, Yes).event = "added"

\* mutant: a country added to a working copy of type none makes it an allow-list
AddCountry_SetsType ==
    /\ epc = "menu"
    /\ Chose(Choice1)
    /\ \E raw \in AddInputs :
        \E confirm \in IF AddAsks(current_items, raw) THEN ConfirmInputs ELSE {<< >>} :
            LET res == add_country_to_list(current_items, raw, confirm)
            IN  /\ current_items' = res.items
                /\ current_type' = IF res.event = "added" /\ current_type = "none"
                                   THEN "whitelist" ELSE current_type
                /\ distribution_info' =
                        RecordAfterEdit(distribution_info, aliases, res.items)
                /\ geo_restrictions' =
                        FetchedAfterEdit(geo_restrictions, aliases, res.items)
                /\ last' = Event(res.event, raw, confirm, res.code, last.applies)
    /\ UNCHANGED <<provider_vars, check_vars, epc, aliases, pending>>

\* choice '1', line 558
AddCountry ==
    /\ epc = "menu"
    /\ Chose(Choice1)
    /\ \E raw \in AddInputs :
        \E confirm \in IF AddAsks(current_items, raw) THEN ConfirmInputs ELSE {<< >>} :
            LET res == add_country_to_list(current_items, raw, confirm)
            IN  /\ current_items' = res.items
                /\ distribution_info' =
                        RecordAfterEdit(distribution_info, aliases, res.items)
                /\ geo_restrictions' =
                        FetchedAfterEdit(geo_restrictions, aliases, res.items)
                /\ last' = Event(res.event, raw, confirm, res.code, last.applies)
    /\ UNCHANGED <<provider_vars, check_vars, epc, aliases, current_type, pending>>

\* whether _remove_country_from_list reaches its (yes/no) prompt, line 675
RemoveAsks(items, raw) ==
    remove_country_from_list(items, raw, Yes).event = "removed"

\* choice '2', line 560; with an empty list nothing is asked at all
RemoveCountry ==
    /\ epc = "menu"
    /\ Chose(Choice2)
    /\ \E raw \in IF current_items = << >> THEN {<< >>} ELSE RemoveInputs :
        \E confirm \in IF RemoveAsks(current_items, raw) THEN ConfirmInputs ELSE {<< >>} :
            LET res == remove_country_from_list(current_items, raw, confirm)
            IN  /\ current_items' = res.items
                /\ distribution_info' =
                        RecordAfterEdit(distribution_info, aliases, res.items)
                /\ geo_restrictions' =
                        FetchedAfterEdit(geo_restrictions, aliases, res.items)
                /\ last' = Event(res.event, raw, confirm, res.code, last.applies)
    /\ UNCHANGED <<provider_vars, check_vars, epc, aliases, current_type, pending>>

\* mutant: clearing empties the list and keeps the type
ClearRestrictions_KeepType ==
    /\ epc = "menu"
    /\ Chose(Choice3)
    /\ current_items' = << >>
    /\ aliases' = [aliases EXCEPT !.fetched = FALSE, !.restr = FALSE]
    /\ last' = Event("cleared", << >>, << >>, None, last.applies)
    /\ UNCHANGED <<provider_vars, check_vars, epc, distribution_info,
                   geo_restrictions, pending, current_type>>

\* choice '3', lines 561-564: `current_items = []` binds the name to a new
\* list, which no dict of the record holds
ClearRestrictions ==
    /\ epc = "menu"
    /\ Chose(Choice3)
    /\ current_items' = << >>
    /\ current_type' = "none"
    /\ aliases' = [aliases EXCEPT !.fetched = FALSE, !.restr = FALSE]
    /\ last' = Event("cleared", << >>, << >>, None, last.applies)
    /\ UNCHANGED <<provider_vars, check_vars, epc, distribution_info,
                   geo_restrictions, pending>>

\* mutant: a declined confirmation leaves the loop
AfterDecline_Break == "done"

\* where the loop goes after a declined confirmation, lines 590-591
AfterDecline == "menu"

\* mutant: a failed apply is tried again at once
AfterFailedApply_Retry == "apply_fetch"

\* where the loop goes after _apply_changes_to_cloudfront returned False,
\* lines 588-589
AfterFailedApply == "menu"

\* the calls of the lookup at session start: it ends with the first answer
\* that has the distribution
LookupCalls ==
    SubSeq(calls, 1, CHOOSE i \in DOMAIN calls : calls[i].answer = "ok")

\* the calls of the latest apply
ApplyCalls == SubSeq(calls, Len(LookupCalls) + 1, Len(calls))

\* choice '4', lines 565-591: the summary, the confirmation and, on yes, the
\* start of _apply_changes_to_cloudfront (lines 716-747: the configuration to
\* submit is built, which changes the record too). The code puts no limit on
\* the applies of a session; MaxApply bounds them here.
ExitAndApply ==
    /\ epc = "menu"
    /\ Chose(Choice4)
    /\ \E confirm \in ConfirmInputs :
        IF IsYes(confirm)
        THEN /\ last.applies < MaxApply
             /\ pending' = [config |-> BuildConfig(distribution_info.config,
                                                   current_type, current_items),
                            etag |-> 0]
             /\ distribution_info' =
                    [distribution_info EXCEPT !.config =
                        RecordAfterBuild(@, current_type, current_items)]
             /\ aliases' = AliasesAfterBuild(aliases, distribution_info.config,
                                             current_type)
             /\ epc' = "apply_fetch"
             /\ last' = Event("confirmed", << >>, confirm, None, last.applies + 1)
             /\ calls' = LookupCalls
        ELSE /\ epc' = AfterDecline
             /\ last' = Event("declined", << >>, confirm, None, last.applies)
             /\ UNCHANGED <<pending, calls, distribution_info, aliases>>
    /\ UNCHANGED <<remote, externalUpdates, check_vars, geo_restrictions,
                   current_type, current_items>>

\* the ETag the read at session start returned
ReadETag == LookupCalls[Len(LookupCalls)].etag

\* mutant: the ETag of the read at session start is used, nothing is fetched
ApplyFetchETag_Reuse ==
    /\ epc = "apply_fetch"
    /\ pending' = [pending EXCEPT !.etag = ReadETag]
    /\ epc' = "apply_update"
    /\ UNCHANGED <<provider_vars, check_vars, distribution_info, geo_restrictions,
                   aliases, current_type, current_items, last>>

\* lines 749-755: the distribution is fetched again for its current ETag; any
\* failure of the fetch ends the apply
ApplyFetchETag ==
    /\ epc = "apply_fetch"
    /\ \E answer \in {"ok", "error"} :
        /\ calls' = Append(calls,
                      Call("get", distribution_info.account, answer,
                           IF answer = "ok" THEN remote.etag ELSE 0))
        /\ IF answer = "ok"
           THEN /\ pending' = [pending EXCEPT !.etag = remote.etag]
                /\ epc' = "apply_update"
                /\ UNCHANGED last
           ELSE /\ epc' = AfterFailedApply
                /\ last' = [last EXCEPT !.event = "apply_failed"]
                /\ pending' = NoPending
    /\ UNCHANGED <<remote, externalUpdates, check_vars, distribution_info,
                   geo_restrictions, aliases, current_type, current_items>>

\* lines 757-780 and 585-589: the conditional update; the provider accepts it
\* only with the current ETag
ApplyUpdate ==
    /\ epc = "apply_update"
    /\ \E answer \in UpdateAnswers :
        /\ answer = "ok" => pending.etag = remote.etag
        /\ answer = "PreconditionFailed" => pending.etag # remote.etag
        /\ calls' = Append(calls,
                      Call("update", distribution_info.account, answer, pending.etag))
        /\ IF answer = "ok"
           THEN /\ remote' = [config |-> pending.config, etag |-> remote.etag + 1]
                /\ epc' = "done"
                /\ last' = [last EXCEPT !.event = "applied"]
           ELSE /\ epc' = AfterFailedApply
                /\ last' = [last EXCEPT !.event = "apply_failed"]
                /\ UNCHANGED remote
    /\ pending' = NoPending
    /\ UNCHANGED <<externalUpdates, check_vars, distribution_info,
                   geo_restrictions, aliases, current_type, current_items>>

\* choice '5', lines 592-594
ExitWithoutChanges ==
    /\ epc = "menu"
    /\ Chose(Choice5)
    /\ epc' = "done"
    /\ last' = Event("exit", << >>, << >>, None, last.applies)
    /\ UNCHANGED <<provider_vars, check_vars, distribution_info, geo_restrictions,
                   aliases, current_type, current_items, pending>>

\* any other input at the menu, lines 595-596
InvalidChoice ==
    /\ epc = "menu"
    /\ \E raw \in MenuInputs :
        Strip(raw) \notin {Choice1, Choice2, Choice3, Choice4, Choice5}
    /\ last' = Event("invalid", << >>, << >>, None, last.applies)
    /\ UNCHANGED <<provider_vars, check_vars, epc, distribution_info,
                   geo_restrictions, aliases, current_type, current_items, pending>>

\* another process updates the distribution (the race the ETag is for), at any
\* moment after the session's read: while the operator is at the menu or at a
\* prompt, between the confirmation and the refetch, or between the refetch and
\* the update.  (A change made before the read is a different record at the
\* start.)  It happens while the provider does not already hold that change.
ExternalUpdate ==
    /\ epc \in {"menu", "apply_fetch", "apply_update"}
    /\ remote.config # ExternalConfig
    /\ remote' = [config |-> ExternalConfig, etag |-> remote.etag + 1]
    /\ externalUpdates' = externalUpdates + 1
    /\ UNCHANGED <<calls, check_vars, edit_vars>>

NextEdit ==
    \/ ReadDistribution
    \/ AddCountry
    \/ RemoveCountry
    \/ ClearRestrictions
    \/ ExitAndApply
    \/ ApplyFetchETag
    \/ ApplyUpdate
    \/ ExitWithoutChanges
    \/ InvalidChoice
    \/ ExternalUpdate

SpecEdit == InitEdit /\ [][NextEdit]_vars

\* the two programs together
Init == InitCheck \/ InitEdit
Next == NextCheck \/ NextEdit
Spec == Init /\ [][Next]_vars

----------------------------------------------------------------------------
(* Claims about the whitelist-check flow (SpecCheck) *)

\* C2: with a current record of type whitelist holding countries A and the
\* required set R, the countries reported as missing from the whitelist are
\* exactly R minus A, the warning is printed exactly when that set is not
\* empty, and no country is reported as blacklisted.
C2_AllowListMissingExact ==
    (Reconciled /\ dist_restrictions.RestrictionType = "whitelist") =>
        /\ Range(report.missing) = Range(countries) \ Range(dist_restrictions.Items)
        /\ report.blocked = << >>
        /\ report.outcome = IF Range(countries) \subseteq Range(dist_restrictions.Items)
                            THEN "all_whitelisted" ELSE "missing_from_whitelist"

\* a whitelist that holds part of the required set and lacks another part
C2_Witness ==
    /\ Reconciled
    /\ dist_restrictions.RestrictionType = "whitelist"
    /\ report.missing # << >>
    /\ Range(countries) \cap Range(dist_restrictions.Items) # {}
    /\ Range(dist_restrictions.Items) \ Range(countries) # {}

\* C3: with a current record of type blacklist holding countries B and the
\* required set R, the countries reported as blocked-but-required are exactly
\* the intersection of R and B, and no country is reported as missing.
C3_BlockListBlockedExact ==
    (Reconciled /\ dist_restrictions.RestrictionType = "blacklist") =>
        /\ Range(report.blocked) = Range(countries) \cap Range(dist_restrictions.Items)
        /\ report.missing = << >>
        /\ report.outcome = IF Range(countries) \cap Range(dist_restrictions.Items) = {}
                            THEN "none_blacklisted" ELSE "required_blacklisted"

\* a blacklist that blocks a required country, and a country that is not required
C3_Witness ==
    /\ Reconciled
    /\ dist_restrictions.RestrictionType = "blacklist"
    /\ report.blocked # << >>
    /\ Range(countries) \ Range(dist_restrictions.Items) # {}
    /\ Range(dist_restrictions.Items) \ Range(countries) # {}

\* C4: with a current record of type NONE (the type 'none', or no type at
\* all), whatever the required set, no country is reported missing or blocked.
C4_NoRestrictionEmptyResult ==
    (Reconciled /\ dist_restrictions.RestrictionType \in {"none", ""}) =>
        /\ report.missing = << >>
        /\ report.blocked = << >>
        /\ report.outcome = "no_restrictions"

\* a record of type NONE reconciled against two required countries
C4_Witness ==
    /\ Reconciled
    /\ dist_restrictions.RestrictionType \in {"none", ""}
    /\ Cardinality(Range(countries)) >= 2

EndToEndDetails == Dict(<< <<"deploy", Dict(<< <<"setup", Str(TsUsE1N2)>> >>)>> >>)
EndToEndRegistry ==
    [aws_eks_clusters |-> << >>,
     gcp_gke_clusters |-> << Entry(TsUsE1N2Gke, "us-east1", "SC", CodeUS) >>]
EndToEndCase ==
    /\ cpc # "start"
    /\ delivery_details = EndToEndDetails
    /\ cluster_regions = EndToEndRegistry
    /\ get_geo_restrictions(remote.config) = Geo("whitelist", <<CodeGB>>)

\* C5: metadata {"deploy":{"setup":"ts-us-e1-n2"}}, a registry whose only
\* entry is GCP ts-us-e1-n2-gke (us-east1, SC, US) and a current whitelist
\* {GB}: the flow derives the required set {US}, goes on to fetch the
\* distribution, and when it gets it reports exactly {US} as missing.
C5_EndToEnd ==
    EndToEndCase =>
        /\ setup_values = <<TsUsE1N2>>
        /\ regions = [aws |-> << >>, gcp |-> <<"us-east1">>]
        /\ countries = <<CodeUS>>
        /\ cpc = "fetch" \/ report.outcome \in {"missing_from_whitelist", "no_distribution"}
        /\ Reconciled =>
            /\ dist_restrictions = Geo("whitelist", <<CodeGB>>)
            /\ report = Report("missing_from_whitelist", <<CodeUS>>, << >>)

C5_Witness ==
    /\ EndToEndCase
    /\ Reconciled
    /\ report.missing = <<CodeUS>>

----------------------------------------------------------------------------
(* Claims about the interactive editor (SpecEdit) *)

\* the session found the distribution and read its record
InSession == distribution_info.account # 0

\* the operator's answer, read literally
\* "yes", "y"
SaidYes(confirm) == Lower(Strip(confirm)) \in {<<121,101,115>>, <<121>>}

\* C1: if another process changes the distribution after the session read it
\* and before the session's update is applied, the session's update is
\* rejected and the external change is not overwritten.
C1_LostUpdateProtection ==
    (InSession /\ externalUpdates > 0) =>
        /\ last.event # "applied"
        /\ remote.config = ExternalConfig

\* C6: every update carries the ETag returned by a successful fetch of the
\* distribution made immediately before it in the same apply, through the same
\* client; an apply starts with that fetch, and when the fetch fails nothing
\* else is sent and the apply reports failure.
C6_TokenRefetchedBeforeUpdate ==
    InSession =>
        LET a == ApplyCalls
        IN  /\ \A i \in DOMAIN a :
                a[i].op = "update" =>
                    /\ i > 1
                    /\ a[i-1].op = "get"
                    /\ a[i-1].answer = "ok"
                    /\ a[i-1].etag = a[i].etag
                    /\ a[i-1].account = a[i].account
            /\ (epc = "apply_update" =>
                    /\ a # << >>
                    /\ a[Len(a)].op = "get"
                    /\ a[Len(a)].answer = "ok"
                    /\ pending.etag = a[Len(a)].etag)
            /\ (a # << >> /\ a[1].answer # "ok") =>
                    /\ Len(a) = 1
                    /\ a[1].op = "get"
                    /\ last.applies >= 1
                    /\ epc \in {"menu", "done"}
                    /\ last.event # "applied"

\* an update was sent with a token that differs from the one of the session's read
C6_Witness ==
    /\ InSession
    /\ ApplyCalls # << >>
    /\ ApplyCalls[Len(ApplyCalls)].op = "update"
    /\ ApplyCalls[Len(ApplyCalls)].etag # ReadETag

\* C7 as stated: after a confirmed apply whose submission failed, the editor
\* loop has ended.
C7_FailedSubmissionEndsLoop ==
    last.event = "apply_failed" => epc = "done"

\* C7 amended: after a confirmed apply whose submission failed (the fetch of
\* the ETag or the update), the editor is back at the menu, the apply has made
\* one attempt only (one fetch, at most one update, the last call a failure)
\* and nothing is pending: it did not retry.
C7_FailedSubmissionReturnsToMenu ==
    last.event = "apply_failed" =>
        LET a == ApplyCalls
        IN  /\ epc = "menu"
            /\ pending = NoPending
            /\ Len(a) \in {1, 2}
            /\ a[Len(a)].answer # "ok"
            /\ Cardinality({ i \in DOMAIN a : a[i].op = "update" }) <= 1
            /\ Cardinality({ i \in DOMAIN a : a[i].op = "get" }) = 1

\* the submission failed on a concurrency conflict
C7_Witness ==
    /\ last.event = "apply_failed"
    /\ epc = "menu"
    /\ ApplyCalls[Len(ApplyCalls)].answer = "PreconditionFailed"

MenuOnlyEvents ==
    {"added", "add_empty", "add_unknown", "add_duplicate", "add_cancelled",
     "removed", "remove_empty_list", "remove_empty", "remove_not_found",
     "remove_cancelled", "cleared", "declined", "invalid", "exit"}

\* C8: the provider is written only in an apply, and an apply runs only after
\* the operator chose 'exit and apply' and answered yes/y: while no such answer
\* was given the session has sent nothing but its read, and the remote record
\* has been written by other processes only (its ETag is that of the session's
\* read, advanced once per change of another process); no step of the session
\* but the update of a confirmed apply changes the remote record, whatever
\* other processes do in between; add, remove, clear, an invalid choice, a
\* declined confirmation and 'exit without changes' never start an apply.
C8_UpdateOnlyOnConfirmation ==
    /\ [](InSession =>
            /\ ((epc \in {"apply_fetch", "apply_update"} \/ ApplyCalls # << >>) =>
                    last.applies >= 1)
            /\ ((epc \in {"apply_fetch", "apply_update"}
                 \/ last.event \in {"applied", "apply_failed"}) =>
                    SaidYes(last.confirm))
            /\ (last.applies = 0 =>
                    /\ ApplyCalls = << >>
                    /\ remote.etag = ReadETag + externalUpdates)
            /\ (last.event \in MenuOnlyEvents => epc \in {"menu", "done"})
            /\ (last.event = "applied" =>
                    /\ ApplyCalls[Len(ApplyCalls)] =
                            Call("update", distribution_info.account, "ok",
                                 remote.etag - 1)
                    /\ remote.config = BuildConfig(distribution_info.config,
                                                   current_type, current_items)))
    /\ [][(remote' # remote /\ externalUpdates' = externalUpdates) =>
            /\ epc = "apply_update"
            /\ last.applies >= 1
            /\ SaidYes(last.confirm)
            /\ last'.event = "applied"
            /\ remote'.config = pending.config]_vars

\* the working copy was edited and the apply declined, while another process
\* changed the distribution: nothing of the session reached the provider
C8_Witness ==
    /\ InSession
    /\ last.event = "declined"
    /\ last.applies = 0
    /\ current_items # get_geo_restrictions(remote.config).Items
    /\ externalUpdates = 1
    /\ remote = [config |-> ExternalConfig, etag |-> ReadETag + 1]

\* C9 as stated: after the operator declined the apply confirmation the editor
\* session has ended.
C9_DeclineIsTerminal ==
    last.event = "declined" => epc = "done"

\* a step in which the operator declines the apply confirmation
DeclineStep == last' # last /\ last'.event = "declined"

\* C9 amended: a declined confirmation sends nothing and leaves the working
\* copy and the remote record as they are, and the editor goes back to the
\* menu: the session goes on.
C9_DeclineReturnsToMenu ==
    [][DeclineStep =>
        /\ epc' = "menu"
        /\ ~SaidYes(last'.confirm)
        /\ UNCHANGED <<current_type, current_items, remote, calls, pending>>]_vars

\* the apply was declined after an edit, and the editor is at the menu again
C9_Witness ==
    /\ last.event = "declined"
    /\ epc = "menu"
    /\ externalUpdates = 0
    /\ current_items # get_geo_restrictions(remote.config).Items

\* the listed countries whose display name contains the text, case-insensitively
NameMatches(items, text) ==
    { i \in DOMAIN items : Contains(Lower(CountryName(items[i])), Lower(text)) }

\* C10 as stated: a country is removed only when the input identified exactly
\* one listed country: its code, or a substring of the display name of that
\* listed country and of no other.
C10_AmbiguousRemoveLeavesList ==
    last.event = "removed" =>
        \/ Upper(Strip(last.input)) = last.code
        \/ NameMatches(current_items, Strip(last.input)) = {}

RemoveEvents == {"removed", "remove_empty_list", "remove_empty",
                 "remove_not_found", "remove_cancelled"}

\* a step of the remove operation
RemoveStep ==
    /\ last' # last \/ current_items' # current_items
    /\ last'.event \in RemoveEvents

\* C10 amended: an empty input, or an input that is neither the code of a
\* listed country nor a substring of a listed display name, leaves the list
\* unchanged; otherwise the country selected is the one with that code or else
\* the first listed country whose display name contains the input (also when
\* several do), and it is removed only when the operator confirms with yes/y.
C10_RemoveFirstMatchOnConfirm ==
    [][RemoveStep =>
        LET input == Strip(last'.input)
            byCode == InList(Upper(input), current_items)
            matches == NameMatches(current_items, input)
            first == CHOOSE i \in matches : \A j \in matches : i <= j
            target == IF byCode THEN Upper(input) ELSE current_items[first]
        IN  /\ current_type' = current_type
            /\ IF input = << >> \/ (~byCode /\ matches = {})
               THEN /\ current_items' = current_items
                    /\ last'.event # "removed"
               ELSE IF SaidYes(last'.confirm)
               THEN /\ current_items' = SelectSeq(current_items, LAMBDA c : c # target)
                    /\ last'.event = "removed"
                    /\ last'.code = target
               ELSE /\ current_items' = current_items
                    /\ last'.event = "remove_cancelled"]_vars

\* a country was removed on an input that also names a country still listed
C10_Witness ==
    /\ last.event = "removed"
    /\ Upper(Strip(last.input)) # last.code
    /\ NameMatches(current_items, Strip(last.input)) # {}

AddEvents == {"added", "add_empty", "add_unknown", "add_duplicate", "add_cancelled"}

\* a step of the add operation
AddStep ==
    /\ last' # last \/ current_items' # current_items
    /\ last'.event \in AddEvents

\* no country twice in the list
NoDuplicates(items) == \A i, j \in DOMAIN items : items[i] = items[j] => i = j

\* C11: an add step appends exactly the code the input resolves to (a known
\* code, or the code of a known display name) when that code is not listed and
\* the operator answers yes/y; for an empty or unknown input, a listed country
\* or any other answer the list is unchanged; the type never changes in an add
\* step. The working list never holds a country twice.
C11_AddOnlyNewKnownConfirmed ==
    /\ [](InSession => NoDuplicates(current_items))
    /\ [][AddStep =>
            LET input == Upper(Strip(last'.input))
                byName == { c \in Codes : Lower(CountryName(c)) = Lower(input) }
                known == input # << >> /\ (input \in Codes \/ byName # {})
                code == IF input \in Codes THEN input ELSE CHOOSE c \in byName : TRUE
            IN  /\ current_type' = current_type
                /\ IF known /\ ~InList(code, current_items) /\ SaidYes(last'.confirm)
                   THEN /\ current_items' = Append(current_items, code)
                        /\ last'.event = "added"
                   ELSE /\ current_items' = current_items
                        /\ last'.event # "added"]_vars

\* a country was added by its display name, and one already listed was refused
C11_Witness ==
    /\ last.event = "added"
    /\ Upper(Strip(last.input)) # last.code
    /\ Len(current_items) >= 2
    /\ current_items[Len(current_items)] = last.code

\* a step of the clear operation
ClearStep ==
    /\ last' # last \/ current_items' # current_items \/ current_type' # current_type
    /\ last'.event = "cleared"

\* C12: a clear step, from any working copy, gives type none and an empty
\* list, asks nothing and returns to the menu; a remove step on an empty list
\* is refused ("remove_empty_list"), leaves the working copy unchanged and
\* returns to the menu.
C12_ClearThenRemoveRejected ==
    [][/\ ClearStep =>
            /\ current_type' = "none"
            /\ current_items' = << >>
            /\ last'.confirm = << >>
            /\ epc' = "menu"
            /\ UNCHANGED <<remote, calls>>
       /\ (RemoveStep /\ current_items = << >>) =>
            /\ last'.event = "remove_empty_list"
            /\ last'.input = << >>
            /\ last'.confirm = << >>
            /\ epc' = "menu"
            /\ UNCHANGED <<current_type, current_items, remote, calls>>]_vars

\* a remove was refused on a working copy that a clear had emptied
C12_Witness ==
    /\ last.event = "remove_empty_list"
    /\ current_type = "none"
    /\ current_items = << >>
    /\ geo_restrictions.RestrictionType = "whitelist"
    /\ epc = "menu"

----------------------------------------------------------------------------
(* Further claims about the whitelist-check flow (SpecCheck) *)

\* the answers after which the scan goes on to the next account
ContinueAnswers == {"NoSuchDistribution", "AccessDenied", "NoDistributionKey"}

\* the lookup of the check flow returned a distribution
LookupFound == Reconciled

\* C13: the lookup queries the accounts one at a time in configuration order;
\* every answer before the last is one after which the scan goes on (not
\* found, access denied, a response without the distribution); the scan ends
\* with the first success, which is its result, or with a malformed-identifier
\* answer and no result, or after the last account with no result.
C13_AccountScan ==
    (cpc = "done" /\ calls # << >>) =>
        LET n == Len(calls)
        IN  /\ n <= Len(Accounts)
            /\ \A i \in 1..n : calls[i].op = "get" /\ calls[i].account = i
            /\ \A i \in 1..(n - 1) : calls[i].answer \in ContinueAnswers
            /\ calls[n].answer = "ok" <=> LookupFound
            /\ calls[n].answer # "ok" => report.outcome = "no_distribution"
            /\ calls[n].answer \in ContinueAnswers => n = Len(Accounts)

\* the first account denied access and the second one had the distribution
C13_Witness ==
    /\ cpc = "done"
    /\ Len(calls) = 2
    /\ calls[1].answer = "AccessDenied"
    /\ calls[2].answer = "ok"
    /\ LookupFound

\* the setups were extracted and resolved against the registry
Resolved == cpc # "start" /\ Truthy(delivery_details) /\ setup_values # << >>

EndsWith(text, suffix) ==
    /\ Len(text) >= Len(suffix)
    /\ SubSeq(text, Len(text) - Len(suffix) + 1, Len(text)) = suffix

\* a registry key with the '-gke' suffix stripped
WithoutGkeSuffix(key) ==
    IF EndsWith(key, GkeSuffix) THEN SubSeq(key, 1, Len(key) - Len(GkeSuffix)) ELSE key

\* the setup equals no AWS key, no GCP key and no GCP key without its suffix
Unmatched(setup, registry) ==
    /\ \A i \in DOMAIN registry.aws_eks_clusters :
            registry.aws_eks_clusters[i].name # setup
    /\ \A i \in DOMAIN registry.gcp_gke_clusters :
            /\ registry.gcp_gke_clusters[i].name # setup
            /\ WithoutGkeSuffix(registry.gcp_gke_clusters[i].name) # setup

EveryEntryHasRegion(registry) ==
    /\ \A i \in DOMAIN registry.aws_eks_clusters : registry.aws_eks_clusters[i].region # ""
    /\ \A i \in DOMAIN registry.gcp_gke_clusters : registry.gcp_gke_clusters[i].region # ""

\* C14: with a registry whose entries all have a region, a setup is in the
\* unresolved list if and only if it equals no AWS key, no GCP key and no GCP
\* key with the '-gke' suffix stripped.
C14_UnresolvedReportedCompletely ==
    (Resolved /\ EveryEntryHasRegion(cluster_regions)) =>
        \A i \in DOMAIN setup_values :
            InList(setup_values[i], not_found_setups)
                <=> Unmatched(setup_values[i], cluster_regions)

\* the countries of the entries of a partition whose region is one of
\* region_list and that have both a location and a country
Contributed(clusters, region_list) ==
    { clusters[i].country :
        i \in { j \in DOMAIN clusters :
                    /\ InList(clusters[j].region, region_list)
                    /\ clusters[j].location # ""
                    /\ clusters[j].country # None } }

\* C15 as stated: the countries returned are those of the entries of either
\* partition whose region is a resolved region, whichever partition the region
\* was resolved from, each once.
C15_CountriesFromBothPartitions ==
    Resolved =>
        LET resolved == regions.aws \o regions.gcp
        IN  /\ NoDuplicates(countries)
            /\ Range(countries) =
                    Contributed(cluster_regions.aws_eks_clusters, resolved)
                    \cup Contributed(cluster_regions.gcp_gke_clusters, resolved)

\* C15 amended: a region resolved from the AWS partition is looked up in the
\* AWS partition only, one resolved from the GCP partition in the GCP
\* partition only; the countries returned are those of the entries found so
\* that have both a location and a country (named by a setup or not), each once.
C15_CountriesFromOwnPartition ==
    Resolved =>
        /\ NoDuplicates(countries)
        /\ Range(countries) =
                Contributed(cluster_regions.aws_eks_clusters, regions.aws)
                \cup Contributed(cluster_regions.gcp_gke_clusters, regions.gcp)

\* a complete entry of clusters has one of the regions of region_list and its
\* country is not among the countries returned
Ignored(clusters, region_list) ==
    \E i \in DOMAIN clusters :
        /\ InList(clusters[i].region, region_list)
        /\ clusters[i].location # ""
        /\ clusters[i].country # None
        /\ ~InList(clusters[i].country, countries)

\* a region resolved from one partition is also the region of a complete entry
\* of the other partition, whose country is not returned
C15_Witness ==
    /\ Resolved
    /\ countries # << >>
    /\ \/ Ignored(cluster_regions.gcp_gke_clusters, regions.aws)
       \/ Ignored(cluster_regions.aws_eks_clusters, regions.gcp)

\* every entry of clusters with a region of region_list that lacks a country
\* or a location has its diagnostic in the missing-country list
IncompleteReported(clusters, region_list) ==
    \A i \in DOMAIN clusters :
        LET e == clusters[i]
        IN  InList(e.region, region_list) =>
                /\ (e.location # "" /\ e.country = None) =>
                        InList(<<e.name, e.location>>, missing_country_clusters)
                /\ e.location = "" =>
                        InList(<<e.name, NoLocation>>, missing_country_clusters)

\* C16 as stated: an entry whose region is among the resolved regions (of
\* either partition) and that lacks a country or a location is in the
\* missing-country list, and adds no country.
C16_IncompleteEntriesReported ==
    Resolved =>
        LET resolved == regions.aws \o regions.gcp
        IN  /\ IncompleteReported(cluster_regions.aws_eks_clusters, resolved)
            /\ IncompleteReported(cluster_regions.gcp_gke_clusters, resolved)
            /\ Range(countries) \subseteq
                    Contributed(cluster_regions.aws_eks_clusters, resolved)
                    \cup Contributed(cluster_regions.gcp_gke_clusters, resolved)

\* C16 amended: an entry whose region is among the regions resolved from its
\* own partition and that has a location but no country is in the
\* missing-country list with its location, one without a location is there
\* with 'no location'; every country returned is the country of an entry that
\* has both, so an incomplete entry adds none.
C16_IncompleteEntriesOfOwnPartitionReported ==
    Resolved =>
        /\ IncompleteReported(cluster_regions.aws_eks_clusters, regions.aws)
        /\ IncompleteReported(cluster_regions.gcp_gke_clusters, regions.gcp)
        /\ Range(countries) \subseteq
                Contributed(cluster_regions.aws_eks_clusters, regions.aws)
                \cup Contributed(cluster_regions.gcp_gke_clusters, regions.gcp)

\* an entry with a country and no location was reported and its country was
\* not used, next to a country that was resolved
C16_Witness ==
    /\ Resolved
    /\ countries # << >>
    /\ InList(<<GkeBGke, NoLocation>>, missing_country_clusters)
    /\ ~InList(CodeGB, countries)

\* the string values stored under a key 'setup' anywhere in a JSON value, in
\* document order: those of a mapping are, pair after pair, the string under
\* 'setup' or else what the value holds; those of a sequence are what its items
\* hold, item after item; a scalar holds none
RECURSIVE SetupStrings(_)
RECURSIVE SetupStringsOfKids(_, _)
SetupStringsOfKids(kids, inDict) ==
    IF kids = << >> THEN << >>
    ELSE LET key == Head(kids)[1]
             value == Head(kids)[2]
             here == IF inDict /\ key = "setup" /\ value.t = "str"
                     THEN << value.s >>
                     ELSE SetupStrings(value)
         IN  here \o SetupStringsOfKids(Tail(kids), inDict)

SetupStrings(value) ==
    IF value.t \in {"dict", "list"}
    THEN SetupStringsOfKids(value.kids, value.t = "dict")
    ELSE << >>

\* C17: the setups extracted from the delivery details are all the string
\* values under a key 'setup' at any depth, in document order, duplicates
\* kept; a 'setup' key with a value that is not a string gives no identifier
\* of its own, and details without such a key give the empty sequence.
C17_SetupExtraction ==
    (cpc # "start" /\ Truthy(delivery_details)) =>
        setup_values = SetupStrings(delivery_details)

\* the same setup was extracted twice, from two depths of the document
C17_Witness ==
    /\ cpc # "start"
    /\ Len(setup_values) = 3
    /\ setup_values[1] = setup_values[3]
    /\ setup_values[1] # setup_values[2]

\* the setup is a key of the GCP partition
IsGcpKey(setup, registry) ==
    \E j \in DOMAIN registry.gcp_gke_clusters : registry.gcp_gke_clusters[j].name = setup

\* the GCP entries matched when the suffix rule applies only to setups
\* without an exact key
MatchedExactFirst(registry, setups) ==
    { i \in DOMAIN registry.gcp_gke_clusters :
        LET key == registry.gcp_gke_clusters[i].name
        IN  \/ InList(key, setups)
            \/ /\ InList(WithoutGkeSuffix(key), setups)
               /\ ~IsGcpKey(WithoutGkeSuffix(key), registry) }

\* C18: a setup that is a key of the GCP partition is not matched to another
\* key through the suffix rule: no mapping from it is recorded, and the GCP
\* regions are those of the entries matched exactly or, for setups without an
\* exact key, by the suffix rule, one region per matched entry.
C18_SuffixOnlyWithoutExactMatch ==
    (Resolved /\ EveryEntryHasRegion(cluster_regions)) =>
        /\ \A i \in DOMAIN cluster_regions.gcp_gke_clusters :
            LET key == cluster_regions.gcp_gke_clusters[i].name
                base == WithoutGkeSuffix(key)
            IN  (InList(base, setup_values) /\ IsGcpKey(base, cluster_regions)) =>
                    ~InList(MappedLabel(base, key), found_setups)
        /\ Len(regions.gcp) =
                Cardinality(MatchedExactFirst(cluster_regions, setup_values))

\* the metadata was fetched, a setup was extracted and a required country
\* was resolved
RequiredCountriesKnown ==
    Truthy(delivery_details) /\ setup_values # << >> /\ countries # << >>

\* C20 as stated: when the flow has ended, the distribution was fetched and
\* reconciled if and only if the metadata was fetched, a setup was extracted
\* and the required-country set is not empty.
C20_ReconciledIffCountries ==
    cpc = "done" => (Reconciled <=> RequiredCountriesKnown)

\* C20 amended: the lookup of the distribution is made if and only if the
\* metadata was fetched, a setup was extracted and the required-country set is
\* not empty, whatever the diagnostics; otherwise no call is made to the
\* provider; reconciliation is performed if and only if, in addition, the
\* lookup returns the distribution, else the flow ends without a verdict.
C20_LookupIffCountries ==
    LET answer == IF calls = << >> THEN "" ELSE calls[Len(calls)].answer
    IN  /\ (cpc = "fetch" => (RequiredCountriesKnown /\ calls = << >>))
        /\ (cpc = "done" =>
                /\ ((calls # << >>) <=> RequiredCountriesKnown)
                /\ (Reconciled <=> (RequiredCountriesKnown /\ answer = "ok"))
                /\ (~RequiredCountriesKnown =>
                        report.outcome \in {"no_details", "no_setups", "no_countries"})
                /\ ((RequiredCountriesKnown /\ answer # "ok") =>
                        report.outcome = "no_distribution"))

\* the flow went on to the reconciliation with an unresolved setup and a
\* missing-country diagnostic
C20_Witness ==
    /\ Reconciled
    /\ not_found_setups # << >>
    /\ missing_country_clusters # << >>

----------------------------------------------------------------------------
(* Further claims about the interactive editor (SpecEdit) *)

\* C19: during a confirmed apply, the geo restriction of the configuration
\* to be sent (read as the program reads a configuration: no restriction is
\* type none with an empty list) has the type and the country list of the
\* working copy, and a quantity equal to the length of the list.
C19_SubmittedIsWorkingCopy ==
    (InSession /\ epc \in {"apply_fetch", "apply_update"}) =>
        LET d == get_geo_restrictions(pending.config)
        IN  /\ RestrictionTypeOf(d) = current_type
            /\ d.Items = current_items
            /\ d.Quantity = Len(current_items)

\* the restriction type the session read from the provider, lines 532-533
FetchedType == RestrictionTypeOf(geo_restrictions)

\* C21: in an editor session the working type is the type fetched at session
\* start or none; an add or a remove step never changes it; once it is none
\* it stays none in every later step of the session, whatever is added.
C21_TypeMonotone ==
    /\ [](InSession => current_type \in {FetchedType, "none"})
    /\ [][InSession =>
            /\ (AddStep \/ RemoveStep) => current_type' = current_type
            /\ current_type = "none" => current_type' = "none"
            /\ current_type' \in {current_type, "none"}]_vars

\* the fetched allow-list was cleared and a country added afterwards: the type
\* is still none
C21_Witness ==
    /\ InSession
    /\ FetchedType = "whitelist"
    /\ current_type = "none"
    /\ last.event = "added"
    /\ current_items # << >>

====
